---- MODULE Spec2Model ----
(***************************************************************************)
(* Model of the reactive engine of ui-lib (reactivity.ts): the proxy       *)
(* traps of createReactiveProxy, notifyListeners, flushNotifications,      *)
(* batch, autorun and its disposer.                                        *)
(*                                                                         *)
(* The store is one root object  s = { x, y, z, u, items }  where x, y, z  *)
(* hold primitives, u holds a nested object and items holds an array of    *)
(* primitives.  Computations are autorun scopes (Comps); the effect        *)
(* each one runs is fixed by EffectKind.                                   *)
(***************************************************************************)
EXTENDS Integers, Sequences, FiniteSets, TLC

\* ------------------------------------------------------------------ bounds
MaxVal == 1            \* primitives are 0..MaxVal
MaxLen == 2            \* longest array
MaxPending == 2        \* queue length beyond which no further batched op starts
MaxBatchDepth == 2     \* nesting of batch() calls
MaxChanges == 3        \* cap of CHANGE_COUNTER
MaxProxies == 3        \* cap of proxies created by storing a handle back
MaxInst == 5           \* cap of component / reactive child instances created
MaxNodes == 6          \* cap of DOM nodes created
MaxKey == 1            \* keys of list items are 0..MaxKey
MaxItems == 2          \* longest list a reactive child renders

\* ------------------------------------------------------------------ values
Prim(n) == [k |-> "prim", v |-> n]
Undef == [k |-> "undef", v |-> 0]
Raw(i) == [k |-> "raw", v |-> i]
Proxy(j) == [k |-> "proxy", v |-> j]
Prims == {Prim(n) : n \in 0..MaxVal}
NestedObjects == {Raw(2), Raw(3)}
ItemsArray == Raw(4)
\* an array assigned to s.list: its items, and which of two array objects it is
List(keys, id) == [k |-> "list", v |-> keys, id |-> id]
IsObject(val) == val.k \in {"raw", "proxy"}
Truthy(val) == IsObject(val) \/ (val.k = "prim" /\ val.v # 0)

\* ------------------------------------------------------------------ keys
\* a key is an (object, property) pair of propertyListeners
RootKey(p) == <<"s", p, 0>>
IdxKey(i) == <<"a", "idx", i>>
LenKey == <<"a", "length", 0>>
MethKey(m) == <<"a", m, 0>>
NoKey == <<"", "", 0>>
PrimProps == {"x", "y", "z"}
RootProps == PrimProps \cup {"u", "items", "mode", "list"}
ARRAY_MUTATORS == {"push", "pop", "shift", "unshift", "reverse", "fill"}
Keys == {RootKey(p) : p \in RootProps}
          \cup {IdxKey(i) : i \in 0..MaxLen} \cup {LenKey}
          \cup {MethKey(m) : m \in ARRAY_MUTATORS}

\* The effects the computations run: scope c runs the effect EffectKinds[c].
EffectKinds == <<"sum", "cond", "list", "disposing", "memo", "memo", "memoLen",
                 "prop", "prop", "region", "inner", "inner">>
Comps == 1..Len(EffectKinds)
EffectKind(c) == EffectKinds[c]
CompsOf(kinds) == {c \in Comps : EffectKind(c) \in kinds}

VARIABLES vals, arr, proxies, listeners, subs, cleanup, created, disposed,
          registered, lastReads, CURRENT_OBSERVATION, BATCHING, batchStack, PENDING_NOTIFICATIONS,
          CHANGE_COUNTER, trace, lastOp, memoCache, memoCalls, memoLog,
          inst, CURRENT_INSTANCE, dom, ilog, thrown

vars == <<vals, arr, proxies, listeners, subs, cleanup, created, disposed,
          registered, lastReads, CURRENT_OBSERVATION, BATCHING, batchStack, PENDING_NOTIFICATIONS,
          CHANGE_COUNTER, trace, lastOp, memoCache, memoCalls, memoLog,
          inst, CURRENT_INSTANCE, dom, ilog, thrown>>

\* ------------------------------------------------------------------ helpers
InSeq(e, s) == \E i \in 1..Len(s) : s[i] = e
SeqRemove(s, e) == SelectSeq(s, LAMBDA t : t # e)

\* what a reactive child's function returns: null, one item or an array of
\* items; an item is a node, a component instance or a KeyedItem
NodeItem(n) == [t |-> "node", id |-> n, key |-> -1]
InstanceItem(i) == [t |-> "instance", id |-> i, key |-> -1]
KeyedItem(type, key) == [t |-> type, id |-> 0, key |-> key]
isKeyedItem(item) == item.t \in {"keyedElement", "keyedComponent"}
NullOut == [kind |-> "null", items |-> <<>>]
SingleOut(item) == [kind |-> "single", items |-> <<item>>]
ArrayOut(items) == [kind |-> "array", items |-> items]
\* the { instance, node } pair normalizeToInstanceAndNode returns
NoResult == [instance |-> 0, node |-> 0]

\* Sequencing: (CHOOSE r \in {e : v \in {x}} : TRUE) is e with v bound to the
\* value of x, x being evaluated once.

\* the whole engine state as one record, threaded through the handlers
Cur ==
  [vals |-> vals, arr |-> arr, proxies |-> proxies, listeners |-> listeners,
   subs |-> subs, cleanup |-> cleanup, disposed |-> disposed, created |-> created,
   registered |-> registered, lastReads |-> lastReads,
   obs |-> CURRENT_OBSERVATION, batching |-> BATCHING,
   pending |-> PENDING_NOTIFICATIONS, counter |-> CHANGE_COUNTER,
   trace |-> <<>>,
   memo |-> memoCache, calls |-> memoCalls, memoLog |-> <<>>,
   inst |-> inst, cur |-> CURRENT_INSTANCE, dom |-> dom, ilog |-> <<>>,
   thrown |-> "", overflow |-> FALSE, ret |-> NullOut, res |-> NoResult]

RunEv(c) == [e |-> "run", c |-> c]
CleanupEv(c) == [e |-> "cleanup", c |-> c]
RegisterEv(c) == [e |-> "register", c |-> c]
Log(st, ev) == [st EXCEPT !.trace = Append(@, ev)]

\* ------------------------------------------------------------------ proxy cache
\* createReactiveProxy: the cached handle of a target, or a new one.
\* proxies[j] is the target that handle Proxy(j) wraps.
\* createReactiveProxyTable without the cache lookup: every call makes a proxy
createReactiveProxyTableNoCache(px, target) == Append(px, target)

createReactiveProxyTable(px, target) ==
  IF InSeq(target, px) THEN px ELSE Append(px, target)

createReactiveProxy(px, target) ==
  LET t == createReactiveProxyTable(px, target)
  IN Proxy(CHOOSE j \in 1..Len(t) : t[j] = target)

\* ------------------------------------------------------------------ get trap
\* the dependency tracking of the get trap: subscribe CURRENT_OBSERVATION
Track(st, key) ==
  (CHOOSE r \in {
    IF s0.obs = 0 THEN s0
    ELSE [s0 EXCEPT
            !.listeners[key] = IF InSeq(s0.obs, @) THEN @ ELSE Append(@, s0.obs),
            !.subs[s0.obs] = @ \cup {key},
            !.lastReads[s0.obs] = @ \cup {key}] : s0 \in {st}} : TRUE)

\* what the raw objects hold
RawGet(st, key) ==
  (CHOOSE r \in {
    IF key[1] = "s" THEN s0.vals[key[2]]
    ELSE IF key[2] = "length" THEN Prim(Len(s0.arr))
    ELSE IF key[3] + 1 \in 1..Len(s0.arr) THEN s0.arr[key[3] + 1]
    ELSE Undef : s0 \in {st}} : TRUE)

\* the value the get trap returns: nested objects come back wrapped
GetValue(st, key) ==
  (CHOOSE r \in {
    LET value == RawGet(s0, key)
    IN IF IsObject(value) THEN createReactiveProxy(s0.proxies, value) ELSE value : s0 \in {st}} : TRUE)

\* the state after the get trap
GetTrap(st, key) ==
  (CHOOSE r \in {
    LET t == Track(s0, key)
        value == RawGet(s0, key)
    IN IF IsObject(value)
         THEN [t EXCEPT !.proxies = createReactiveProxyTable(@, value)]
         ELSE t : s0 \in {st}} : TRUE)

\* ------------------------------------------------------------------ autorun
\* clearReactiveScopeSubscriptions
clearReactiveScopeSubscriptions(st, c) ==
  (CHOOSE r \in {
    [s0 EXCEPT
       !.listeners = [k \in Keys |-> IF k \in s0.subs[c] THEN SeqRemove(@[k], c) ELSE @[k]],
       !.subs[c] = {}] : s0 \in {st}} : TRUE)

\* the disposer autorun returns
DisposeScope(st, c) ==
  (CHOOSE r \in {
    LET a == IF s0.cleanup[c] THEN Log(s0, CleanupEv(c)) ELSE s0
        b == clearReactiveScopeSubscriptions(a, c)
    IN [b EXCEPT !.disposed[c] = TRUE] : s0 \in {st}} : TRUE)

\* ------------------------------------------------------------------ instances
\* The logical tree of component.ts.  inst[i] is the i-th instance created;
\* 0 stands for null.  children, cleanups and autorunDisposals are kept in
\* insertion order.  ran and disposalRan count the calls of each registered
\* cleanup and each registered disposer.  A ReactiveChild made inside another
\* one's content (type "inner") keeps the computation that drives it (scope),
\* the element its anchors are in (regionParent) and the text between its
\* anchors (text, Undef when the region is empty).  mounted[k] counts the
\* calls of the k-th callback registered with onMount, detached[k] tells
\* whether one of them came while the root node had no parent;
\* mountCallbacks holds the callbacks not called yet.
Insts == 1..MaxInst
Nodes == 1..MaxNodes
NoNodeKey == -1
NoInstance ==
  [kind |-> "none", type |-> "", parent |-> 0, children |-> <<>>, cleanups |-> <<>>,
   autorunDisposals |-> <<>>, mountCallbacks |-> <<>>, domRoot |-> 0, isDisposed |-> FALSE,
   ran |-> <<>>, disposalRan |-> <<>>, scope |-> 0, regionParent |-> 0, text |-> Undef,
   mounted |-> <<>>, detached |-> <<>>]

\* what the instance layer did, in order
ILog(st, e, i, a, b) ==
  [st EXCEPT !.ilog = Append(@, [e |-> e, i |-> i, a |-> a, b |-> b])]

\* ---- DOM: the nodes created, their parent (0 detached, ContainerNode or
\* RegionParent otherwise) and the order of the nodes between the anchors
ContainerNode == -1
RegionParent == -2

\* document.createElement(...)
createElement(st, key) ==
  (CHOOSE r \in {
    IF s0.dom.count >= MaxNodes THEN [s0 EXCEPT !.overflow = TRUE]
    ELSE ILog([s0 EXCEPT !.dom.count = @ + 1, !.dom.key[s0.dom.count + 1] = key],
              "createNode", s0.dom.count + 1, key, 0) : s0 \in {st}} : TRUE)

\* the node createElement made last
NewNode(st) == st.dom.count

\* parentNode.removeChild(n)
removeChild(st, n) ==
  (CHOOSE r \in {
    IF s0.dom.parent[n] = 0 THEN s0
    ELSE ILog([s0 EXCEPT !.dom.parent[n] = 0, !.dom.region = SeqRemove(@, n)],
              "remove", n, 0, 0) : s0 \in {st}} : TRUE)

\* the position of n in s, 0 when absent
IndexOf(s, n) == IF InSeq(n, s) THEN CHOOSE i \in 1..Len(s) : s[i] = n ELSE 0

\* s with n put before ref (0: at the end)
InsertAt(s, n, ref) ==
  LET r == IndexOf(s, ref)
  IN IF r = 0 THEN Append(s, n)
     ELSE SubSeq(s, 1, r - 1) \o <<n>> \o SubSeq(s, r, Len(s))

\* end.parentNode.insertBefore(n, ref ?? end): n leaves where it was
insertBeforeRef(st, n, ref) ==
  ILog([st EXCEPT !.dom.parent[n] = RegionParent,
                  !.dom.region = InsertAt(SeqRemove(@, n), n, ref)],
       "insert", n, ref, 0)

\* container.appendChild(n) / el.appendChild(n) outside the region
appendToParent(st, n, parentNode) ==
  [st EXCEPT !.dom.parent[n] = parentNode, !.dom.region = SeqRemove(@, n)]

RECURSIVE ClearLoop(_, _, _)
ClearLoop(st, ns, i) ==
  (CHOOSE r \in {
    IF i > Len(ns) THEN s0 ELSE ClearLoop(removeChild(s0, ns[i]), ns, i + 1) : s0 \in {st}} : TRUE)

\* region.clearContent()
clearContent(st) == (CHOOSE r \in { ClearLoop(s0, s0.dom.region, 1) : s0 \in {st}} : TRUE)

\* this.region.clearContent() of ReactiveChild i
clearRegion(st, i) ==
  (CHOOSE r \in {
    IF s0.inst[i].type = "inner" THEN [s0 EXCEPT !.inst[i].text = Undef]
    ELSE clearContent(s0) : s0 \in {st}} : TRUE)

\* ---- dispose
RECURSIVE dispose(_, _)
RECURSIVE DisposeChildren(_, _, _)
RECURSIVE RunCleanups(_, _, _)

\* for (const child of this.children) child.dispose()
DisposeChildren(st, cs, k) ==
  (CHOOSE r \in {
    IF k > Len(cs) THEN s0
    ELSE (CHOOSE r \in { DisposeChildren(a, cs, k + 1) : a \in {dispose(s0, cs[k])}} : TRUE)
          : s0 \in {st}} : TRUE)

\* for (const cleanup of this.cleanups) cleanup(); a "redispose" cleanup
\* calls dispose() of its own instance
RunCleanups(st, i, k) ==
  (CHOOSE r \in {
    IF k > Len(s0.inst[i].cleanups) THEN s0
    ELSE (CHOOSE r \in {
           RunCleanups(IF a.inst[i].cleanups[k] = "redispose" THEN dispose(a, i) ELSE a,
                       i, k + 1)
                             : a \in {ILog([s0 EXCEPT !.inst[i].ran[k] = @ + 1], "cleanup", i, k, 0)}} : TRUE)
                             : s0 \in {st}} : TRUE)

RECURSIVE RunDisposals(_, _, _)
\* for (const disposal of this.autorunDisposals) disposal()
RunDisposals(st, i, k) ==
  (CHOOSE r \in {
    IF k > Len(s0.inst[i].autorunDisposals) THEN s0
    ELSE (CHOOSE r \in {
           RunDisposals(DisposeScope(a, s0.inst[i].autorunDisposals[k]), i, k + 1) : a \in {ILog([s0 EXCEPT !.inst[i].disposalRan[k] = @ + 1],
                   "disposal", i, s0.inst[i].autorunDisposals[k], 0)}} : TRUE) : s0 \in {st}} : TRUE)

\* dispose() that leaves the instance in its parent's children
UnregisterFromParentSkipped(st, i, parent) == st

\* this.parent?.children.delete(this)
UnregisterFromParent(st, i, parent) ==
  (CHOOSE r \in {
    IF parent # 0 THEN [s0 EXCEPT !.inst[parent].children = SeqRemove(@, i)] ELSE s0 : s0 \in {st}} : TRUE)

\* DisposeBody with the instance's own cleanups run before its children
\* are disposed
DisposeBodyCleanupsFirst(st, i) ==
  (CHOOSE r \in {
    (CHOOSE r \in {
    (CHOOSE r \in {
    (CHOOSE r \in {
      UnregisterFromParent([c EXCEPT !.inst[i].children = <<>>], i, s0.inst[i].parent)
            : c \in {DisposeChildren(b, s0.inst[i].children, 1)}} : TRUE)
            : b \in {RunDisposals(RunCleanups(a, i, 1), i, 1)}} : TRUE)
            : a \in {ILog([s0 EXCEPT !.inst[i].isDisposed = TRUE], "dispose", i, 1, 0)}} : TRUE)
            : s0 \in {st}} : TRUE)

\* dispose() past its guard, up to the clearing of the references
DisposeBody(st, i) ==
  (CHOOSE r \in {
    (CHOOSE r \in {
    (CHOOSE r \in {
    (CHOOSE r \in {
    (CHOOSE r \in {
    (CHOOSE r \in {
      IF s0.inst[i].kind = "component" /\ s0.inst[i].domRoot # 0
        THEN removeChild(e, s0.inst[i].domRoot)
        ELSE e : e \in {UnregisterFromParent(d, i, s0.inst[i].parent)}} : TRUE)
              : d \in {IF s0.inst[i].kind = "reactiveChild" THEN clearRegion(c, i) ELSE c}} : TRUE)
              : c \in {RunDisposals(RunCleanups([b EXCEPT !.inst[i].children = <<>>], i, 1), i, 1)}} : TRUE)
              : b \in {DisposeChildren(a, s0.inst[i].children, 1)}} : TRUE)
              : a \in {ILog([s0 EXCEPT !.inst[i].isDisposed = TRUE], "dispose", i, 1, 0)}} : TRUE)
              : s0 \in {st}} : TRUE)

\* dispose whose flag only marks a call in progress: it is lowered again
\* when the call ends and the registered callbacks are kept
disposeGuardsOnlyReentry(st, i) ==
  (CHOOSE r \in {
    IF s0.inst[i].isDisposed THEN ILog(s0, "dispose", i, 0, 0)
    ELSE ILog([DisposeBody(s0, i) EXCEPT !.inst[i].isDisposed = FALSE], "disposed", i, 0, 0)
          : s0 \in {st}} : TRUE)

\* ReactiveComponent.dispose and ReactiveChild.dispose
dispose(st, i) ==
  (CHOOSE r \in {
    IF s0.inst[i].isDisposed THEN ILog(s0, "dispose", i, 0, 0)
    ELSE ILog([DisposeBody(s0, i) EXCEPT !.inst[i].cleanups = <<>>,
                                         !.inst[i].autorunDisposals = <<>>,
                                         !.inst[i].mountCallbacks = <<>>,
                                         !.inst[i].domRoot = 0,
                                         !.inst[i].parent = 0],
              "disposed", i, 0, 0) : s0 \in {st}} : TRUE)

\* ---- component evaluation
\* The component functions of the tests; each also calls onMount(g):
\*   GrandChild: onCleanup(f); return <div class={() => s.x}/>
\*   Child:      onCleanup(f); onCleanup(() => handle.dispose());
\*               return <div><GrandChild/></div>
\*   Parent:     onCleanup(f); return <div><Child/><GrandChild/></div>
\*   Item:       onCleanup(f); return <li/>
\*   Host:       onCleanup(f); return <div>{() => view()}</div>
ComponentTypes == {"GrandChild", "Child", "Parent", "Item", "Host"}
TypeCleanups(type) ==
  IF type = "Child" THEN <<"plain", "redispose">> ELSE <<"plain">>
TypeChildren(type) ==
  CASE type = "Parent" -> <<"Child", "GrandChild">>
    [] type = "Child" -> <<"GrandChild">>
    [] OTHER -> <<>>
\* the callbacks the component function hands to onMount
TypeMounts(type) == <<"mounted">>
TypeHasReactiveProp(type) == type = "GrandChild"
TypeHasReactiveChild(type) == type = "Host"
TypeTag(type) == IF type = "Item" THEN "li" ELSE "div"

RECURSIVE RunScope(_, _)
RECURSIVE evaluateComponentFunction(_, _, _)
RECURSIVE EvaluateChildren(_, _, _)
RECURSIVE AppendChildren(_, _, _, _)

\* the number of instances made so far; the last one made has this index
NewInstance(st) == Cardinality({k \in Insts : st.inst[k].kind # "none"})

\* Construct where a ReactiveComponent joins the children of any parent
ConstructAlwaysRegisters(st, kind, type, parent) ==
  (CHOOSE r \in {
    IF NewInstance(s0) >= MaxInst THEN [s0 EXCEPT !.overflow = TRUE]
    ELSE (CHOOSE r \in {
      IF parent # 0
        THEN ILog([s0 EXCEPT !.inst[i] = [NoInstance EXCEPT !.kind = kind, !.type = type,
                                                            !.parent = parent],
                             !.inst[parent].children = Append(@, i)],
                  "construct", i, parent, 1)
        ELSE ILog([s0 EXCEPT !.inst[i] = [NoInstance EXCEPT !.kind = kind, !.type = type,
                                                            !.parent = parent]],
                  "construct", i, parent, 0) : i \in {NewInstance(s0) + 1}} : TRUE) : s0 \in {st}} : TRUE)

\* new ReactiveComponent(parent) / new ReactiveChild(parent, region): a
\* ReactiveChild always joins its parent's children, a ReactiveComponent
\* only those of a ReactiveComponent
Construct(st, kind, type, parent) ==
  (CHOOSE r \in {
    IF NewInstance(s0) >= MaxInst THEN [s0 EXCEPT !.overflow = TRUE]
    ELSE (CHOOSE r \in {
      IF parent # 0 /\ (kind = "reactiveChild" \/ s0.inst[parent].kind = "component")
        THEN ILog([s0 EXCEPT !.inst[i] = [NoInstance EXCEPT !.kind = kind, !.type = type,
                                                            !.parent = parent],
                             !.inst[parent].children = Append(@, i)],
                  "construct", i, parent, 1)
        ELSE ILog([s0 EXCEPT !.inst[i] = [NoInstance EXCEPT !.kind = kind, !.type = type,
                                                            !.parent = parent]],
                  "construct", i, parent, 0) : i \in {NewInstance(s0) + 1}} : TRUE) : s0 \in {st}} : TRUE)

\* onCleanup(fn), once per cleanup of the component function
RegisterCleanups(st, i, kinds) ==
  [st EXCEPT !.inst[i].cleanups = @ \o kinds,
             !.inst[i].ran = @ \o [k \in 1..Len(kinds) |-> 0]]

\* the computation a reactive prop gets: the first unused one
ReactivePropComps == CompsOf({"prop"})
FreePropComps(st) == {c \in ReactivePropComps : ~st.created[c]}
PropFn(c) ==
  IF c = (CHOOSE d \in ReactivePropComps : \A e \in ReactivePropComps : d <= e)
    THEN "propA" ELSE "propB"

\* createReactiveProp: autorun(...) and the disposer pushed on the current
\* instance when that is a ReactiveComponent
createReactiveProp(st) ==
  (CHOOSE r \in {
    IF FreePropComps(s0) = {} THEN [s0 EXCEPT !.overflow = TRUE]
    ELSE (CHOOSE r \in {
         (CHOOSE r \in {
           IF a.cur # 0 /\ a.inst[a.cur].kind = "component"
             THEN [a EXCEPT !.inst[a.cur].autorunDisposals = Append(@, c),
                            !.inst[a.cur].disposalRan = Append(@, 0)]
             ELSE a : a \in {[RunScope(s0, c) EXCEPT !.created[c] = TRUE]}} : TRUE)
                   : c \in {CHOOSE d \in FreePropComps(s0) : \A e \in FreePropComps(s0) : d <= e}} : TRUE)
                   : s0 \in {st}} : TRUE)

\* the children of the component function's JSX, evaluated in order
EvaluateChildren(st, types, k) ==
  (CHOOSE r \in {
    IF k > Len(types) \/ s0.overflow THEN s0
    ELSE EvaluateChildren(evaluateComponentFunction(s0, types[k], s0.cur), types, k + 1)
          : s0 \in {st}} : TRUE)

\* onMount(fn), once per callback of the component function
RegisterMounts(st, i, n) ==
  (CHOOSE r \in {
    [s0 EXCEPT !.inst[i].mountCallbacks = @ \o [k \in 1..n |-> Len(s0.inst[i].mounted) + k],
               !.inst[i].mounted = @ \o [k \in 1..n |-> 0],
               !.inst[i].detached = @ \o [k \in 1..n |-> FALSE]] : s0 \in {st}} : TRUE)

\* callMountCallbacks without the clearing of the list
callMountCallbacksKeepsList(st, i) ==
  (CHOOSE r \in {
    ILog([s0 EXCEPT
            !.inst[i].mounted =
               [k \in 1..Len(@) |-> IF InSeq(k, s0.inst[i].mountCallbacks) THEN @[k] + 1 ELSE @[k]],
            !.inst[i].detached =
               [k \in 1..Len(@) |->
                  IF InSeq(k, s0.inst[i].mountCallbacks)
                    THEN @[k] \/ s0.inst[i].domRoot = 0 \/ s0.dom.parent[s0.inst[i].domRoot] = 0
                    ELSE @[k]]],
         "mount", i, Len(s0.inst[i].mountCallbacks), 0) : s0 \in {st}} : TRUE)

\* ReactiveComponent.callMountCallbacks: every callback of the list is
\* called, then the list is emptied
callMountCallbacks(st, i) ==
  (CHOOSE r \in {
    ILog([s0 EXCEPT
            !.inst[i].mounted =
               [k \in 1..Len(@) |-> IF InSeq(k, s0.inst[i].mountCallbacks) THEN @[k] + 1 ELSE @[k]],
            !.inst[i].detached =
               [k \in 1..Len(@) |->
                  IF InSeq(k, s0.inst[i].mountCallbacks)
                    THEN @[k] \/ s0.inst[i].domRoot = 0 \/ s0.dom.parent[s0.inst[i].domRoot] = 0
                    ELSE @[k]],
            !.inst[i].mountCallbacks = <<>>],
         "mount", i, Len(s0.inst[i].mountCallbacks), 0) : s0 \in {st}} : TRUE)

\* appendChild(el, child) for each child component: its root joins el and
\* its mount callbacks are called
AppendChildren(st, el, cs, k) ==
  (CHOOSE r \in {
    IF k > Len(cs) THEN s0
    ELSE AppendChildren(IF s0.inst[cs[k]].domRoot # 0
                          THEN callMountCallbacks(
                                 appendToParent(s0, s0.inst[cs[k]].domRoot, el), cs[k])
                          ELSE s0,
                        el, cs, k + 1) : s0 \in {st}} : TRUE)

\* exitComponentScope / exitReactiveScope
exitScope(st) ==
  (CHOOSE r \in { [s0 EXCEPT !.cur = IF s0.cur = 0 THEN 0 ELSE s0.inst[s0.cur].parent] : s0 \in {st}} : TRUE)

\* the computation of the reactive child
RegionComp == CHOOSE c \in CompsOf({"region"}) : TRUE

\* appendChild(el, child) for a function child: the region, the
\* ReactiveChild entered as current instance, the autorun, and, unless the
\* autorun threw, the disposer stored and the scope left
appendChildFunction(st) ==
  (CHOOSE r \in {
    (CHOOSE r \in {
      IF a.overflow THEN a
      ELSE (CHOOSE r \in {
           (CHOOSE r \in {
             IF b.thrown # "" \/ b.overflow THEN b
             ELSE exitScope([b EXCEPT !.inst[rc].autorunDisposals = <<RegionComp>>,
                                      !.inst[rc].disposalRan = <<0>>])
                                            : b \in {[RunScope([a EXCEPT !.cur = rc], RegionComp) EXCEPT !.created[RegionComp] = TRUE]}} : TRUE)
                                            : rc \in {NewInstance(a)}} : TRUE)
                                            : a \in {Construct(s0, "reactiveChild", "", s0.cur)}} : TRUE)
                                            : s0 \in {st}} : TRUE)

\* evaluateComponentFunction(type, props, children, parentInstance); the
\* component it makes is instance NewInstance(st) + 1.  When the function
\* throws, only the finally block's exitComponentScope still runs.
evaluateComponentFunction(st, type, parentInstance) ==
  (CHOOSE r \in {
    IF a.overflow THEN a
    ELSE (CHOOSE r \in {
         (CHOOSE r \in {
         (CHOOSE r \in {
         (CHOOSE r \in {
         (CHOOSE r \in {
           IF f.overflow THEN f
           ELSE IF f.thrown # "" THEN exitScope(f)
           ELSE exitScope([AppendChildren(f, NewNode(d),
                                          SelectSeq([k \in Insts |-> k],
                                                    LAMBDA k : k > i /\ f.inst[k].parent = i),
                                          1)
                           EXCEPT !.inst[i].domRoot = NewNode(d)])
                                 : f \in {IF TypeHasReactiveChild(type) /\ ~e.overflow THEN appendChildFunction(e) ELSE e}} : TRUE)
                                 : e \in {IF TypeHasReactiveProp(type) /\ ~d.overflow THEN createReactiveProp(d) ELSE d}} : TRUE)
                                 : d \in {createElement(c, NoNodeKey)}} : TRUE)
                                 : c \in {EvaluateChildren(
                                           RegisterMounts(
                                             RegisterCleanups([a EXCEPT !.cur = i], i,
                                                              TypeCleanups(type)),
                                             i, Len(TypeMounts(type))),
                                           TypeChildren(type), 1)}} : TRUE) : i \in {NewInstance(a)}} : TRUE)
                                     : a \in {Construct(st, "component", type, parentInstance)}} : TRUE)

\* ---- the reactive child's function
\*   () => s.mode === 0 ? null
\*       : s.mode === 1 ? <p/>
\*       : s.mode === 2 ? <Child/>
\*       : s.mode === 3 ? s.list.map(k => <span/>)
\*       : s.mode === 4 ? s.list.map(k => <span key={k}/>)
\*       : s.mode === 5 ? s.list.map(k => <Item key={k}/>)
\*       : s.mode === 6 ? [...s.list.map(k => <span key={k}/>), <span/>]
\*       : s.mode === 7 ? <div><p class={() => s.x}/>{s.y}</div>
\*       : s.mode === 8 ? <span>{() => s.x}</span>
\*       : s.mode === 9 ? <button onClick={f}/>
\*       : (s.y, cached ??= <p/>)
\* dom.cached is the node kept in `cached`, 0 before it is made
Modes == <<"null", "element", "component", "plain", "keyed", "keyedComponents", "mixed">>
NestedModes == <<"propElement", "nested", "handler", "cached">>
AllModes == Modes \o NestedModes
ModeOf(val) ==
  IF val.k = "prim" /\ val.v + 1 \in 1..Len(AllModes) THEN AllModes[val.v + 1] ELSE "null"

\* setProp(el, "onClick", f): the removal of the listener joins the cleanups
\* of the current instance, when there is one
setEventProp(st) ==
  (CHOOSE r \in {
    IF s0.cur = 0 THEN s0
    ELSE [s0 EXCEPT !.inst[s0.cur].cleanups = Append(@, "listener"),
                    !.inst[s0.cur].ran = Append(@, 0)] : s0 \in {st}} : TRUE)

\* the computation a nested reactive child gets: the first unused one
InnerComps == CompsOf({"inner"})
FreeInnerComps(st) == {c \in InnerComps : ~st.created[c]}
InnerFn(c) ==
  IF c = (CHOOSE d \in InnerComps : \A e \in InnerComps : d <= e)
    THEN "innerA" ELSE "innerB"

\* appendChild(el, () => s.x) inside the content of a reactive child: as
\* appendChildFunction, with the region made in el
appendChildInner(st, el) ==
  (CHOOSE r \in {
    IF FreeInnerComps(s0) = {} THEN [s0 EXCEPT !.overflow = TRUE]
    ELSE (CHOOSE r \in {
           IF a.overflow THEN a
           ELSE (CHOOSE r \in {
                  IF b.thrown # "" \/ b.overflow THEN b
                  ELSE exitScope([b EXCEPT !.inst[NewInstance(a)].autorunDisposals = <<c>>,
                                           !.inst[NewInstance(a)].disposalRan = <<0>>])
                  : b \in {[RunScope([a EXCEPT !.cur = NewInstance(a),
                                               !.inst[NewInstance(a)].scope = c,
                                               !.inst[NewInstance(a)].regionParent = el], c)
                              EXCEPT !.created[c] = TRUE]}} : TRUE)
           : a \in {Construct(s0, "reactiveChild", "inner", s0.cur)},
             c \in {CHOOSE d \in FreeInnerComps(s0) : \A e \in FreeInnerComps(s0) : d <= e}}
           : TRUE)
    : s0 \in {st}} : TRUE)

RECURSIVE MapList(_, _, _, _, _)
\* s.list.map(...): the items made for keys[k..], appended to acc
MapList(st, keys, mode, k, acc) ==
  (CHOOSE r \in {
    IF k > Len(keys)
      THEN IF mode = "mixed"
             THEN (CHOOSE r \in {
                    [a EXCEPT !.ret = ArrayOut(Append(acc, NodeItem(NewNode(a))))]
                          : a \in {createElement(s0, NoNodeKey)}} : TRUE)
             ELSE [s0 EXCEPT !.ret = ArrayOut(acc)]
    ELSE IF mode = "plain"
      THEN (CHOOSE r \in {
             MapList(a, keys, mode, k + 1, Append(acc, NodeItem(NewNode(a))))
                   : a \in {createElement(s0, NoNodeKey)}} : TRUE)
    ELSE IF mode = "keyedComponents"
      THEN MapList(s0, keys, mode, k + 1, Append(acc, KeyedItem("keyedComponent", keys[k])))
    ELSE MapList(s0, keys, mode, k + 1, Append(acc, KeyedItem("keyedElement", keys[k])))
          : s0 \in {st}} : TRUE)

\* one invocation of the function; st.ret is what it returned.  The array
\* read from s.list is never mutated afterwards, so the subscriptions to
\* its own properties are left out.
InvokeView(st) ==
  (CHOOSE r \in {
    (CHOOSE r \in {
      CASE mode = "null" -> [a EXCEPT !.ret = NullOut]
        [] mode = "element" ->
             (CHOOSE r \in {
               [b EXCEPT !.ret = SingleOut(NodeItem(NewNode(b)))]
                     : b \in {createElement(a, NoNodeKey)}} : TRUE)
        [] mode = "component" ->
             (CHOOSE r \in {
               [b EXCEPT !.ret = SingleOut(InstanceItem(NewInstance(a) + 1))]
                     : b \in {evaluateComponentFunction(a, "Child", a.cur)}} : TRUE)
        [] mode = "propElement" ->
             (CHOOSE r \in {
               (CHOOSE r \in {
                 [appendToParent(d, NewNode(b), NewNode(d))
                    EXCEPT !.ret = SingleOut(NodeItem(NewNode(d)))]
                     : d \in {createElement(GetTrap(createReactiveProp(b), RootKey("y")),
                                            NoNodeKey)}} : TRUE)
                     : b \in {createElement(a, NoNodeKey)}} : TRUE)
        [] mode = "nested" ->
             (CHOOSE r \in {
               [appendChildInner(b, NewNode(b)) EXCEPT !.ret = SingleOut(NodeItem(NewNode(b)))]
                     : b \in {createElement(a, NoNodeKey)}} : TRUE)
        [] mode = "handler" ->
             (CHOOSE r \in {
               [setEventProp(b) EXCEPT !.ret = SingleOut(NodeItem(NewNode(b)))]
                     : b \in {createElement(a, NoNodeKey)}} : TRUE)
        [] mode = "cached" ->
             (CHOOSE r \in {
               IF b.dom.cached # 0 THEN [b EXCEPT !.ret = SingleOut(NodeItem(b.dom.cached))]
               ELSE (CHOOSE r \in {
                      IF d.overflow THEN d
                      ELSE [d EXCEPT !.dom.cached = NewNode(d),
                                     !.ret = SingleOut(NodeItem(NewNode(d)))]
                            : d \in {createElement(b, NoNodeKey)}} : TRUE)
                     : b \in {GetTrap(a, RootKey("y"))}} : TRUE)
        [] OTHER ->
             (CHOOSE r \in {
               MapList(b, RawGet(b, RootKey("list")).v, mode, 1, <<>>)
                     : b \in {GetTrap(a, RootKey("list"))}} : TRUE)
                     : mode \in {ModeOf(RawGet(a, RootKey("mode")))}} : TRUE)
                     : a \in {GetTrap(st, RootKey("mode"))}} : TRUE)

\* ------------------------------------------------------------------ runWithMemo
\* the functions handed to runWithMemo:
\*   double == () => s.x * 2        len == () => s.items.length
MemoFns == {"double", "len", "propA", "propB", "view", "innerA", "innerB"}
NaN == [k |-> "nan", v |-> 0]
NoMemoCache == [has |-> FALSE, value |-> Undef, changeId |-> 0]

\* the tracked reads fn makes
InvokeFn(st, fn) ==
  (CHOOSE r \in {
    CASE fn \in {"double", "propA", "propB", "innerA", "innerB"} -> GetTrap(s0, RootKey("x"))
      [] fn = "len" -> GetTrap(GetTrap(s0, RootKey("items")), LenKey)
      [] OTHER -> InvokeView(s0) : s0 \in {st}} : TRUE)

\* the value fn returns
FnValue(st, fn) ==
  (CHOOSE r \in {
    CASE fn = "double" ->
           LET x == RawGet(s0, RootKey("x"))
           IN IF x.k = "prim" THEN Prim(2 * x.v) ELSE NaN
      [] fn \in {"propA", "propB", "innerA", "innerB"} -> RawGet(s0, RootKey("x"))
      [] fn = "len" -> RawGet(s0, LenKey)
      [] OTHER -> s0.ret : s0 \in {st}} : TRUE)

\* one call of runWithMemo recorded: the function, the counter value, the
\* value returned, whether fn was invoked, how many times fn has been
\* invoked at this counter value and what its first invocation there returned
LogMemo(st, fn, value, fresh) ==
  (CHOOSE r \in {
    (CHOOSE r \in {
      [s0 EXCEPT !.calls[fn] = new,
                 !.memoLog = Append(@, [f |-> fn, id |-> s0.counter, v |-> value,
                                        fresh |-> fresh,
                                        n |-> IF new.id = s0.counter THEN new.n ELSE 0,
                                        v0 |-> new.v])] : new \in {IF ~fresh THEN s0.calls[fn]
         ELSE IF s0.calls[fn].id = s0.counter THEN [s0.calls[fn] EXCEPT !.n = @ + 1]
         ELSE [id |-> s0.counter, n |-> 1, v |-> value]}} : TRUE) : s0 \in {st}} : TRUE)

\* runWithMemo with one cache slot shared by every function
runWithMemoSharedCache(st, fn) ==
  (CHOOSE r \in {
    (CHOOSE r \in {
      IF s0.memo[slot].has /\ s0.memo[slot].changeId = s0.counter
        THEN LogMemo(s0, fn, s0.memo[slot].value, FALSE)
        ELSE (CHOOSE r \in {
               LogMemo([a EXCEPT !.memo[slot] =
                          [has |-> TRUE, value |-> FnValue(a, fn), changeId |-> a.counter]],
                       fn, FnValue(a, fn), TRUE) : a \in {InvokeFn(s0, fn)}} : TRUE)
                             : slot \in {CHOOSE f \in MemoFns : TRUE}} : TRUE)
                             : s0 \in {st}} : TRUE)

\* runWithMemo(fn); the value it returns is the one logged last
runWithMemo(st, fn) ==
  (CHOOSE r \in {
    IF s0.memo[fn].has /\ s0.memo[fn].changeId = s0.counter
      THEN LogMemo(s0, fn, s0.memo[fn].value, FALSE)
      ELSE (CHOOSE r \in {
             LogMemo([a EXCEPT !.memo[fn] =
                        [has |-> TRUE, value |-> FnValue(a, fn), changeId |-> a.counter]],
                     fn, FnValue(a, fn), TRUE) : a \in {InvokeFn(s0, fn)}} : TRUE) : s0 \in {st}} : TRUE)

\* The effects.  Every one is a sequence of tracked reads, an optional
\* onCleanup registration and, for the disposing effect, a call of the
\* disposer of scope Victim.
Victim == CHOOSE c \in Comps : EffectKind(c) = "sum"

RECURSIVE ReadIndices(_, _)
ReadIndices(st, i) ==
  (CHOOSE r \in {
    IF i >= Len(s0.arr) THEN s0
    ELSE ReadIndices(GetTrap(s0, IdxKey(i)), i + 1) : s0 \in {st}} : TRUE)

\* onCleanup(fn) inside the effect: scope.cleanup = fn
RegisterCleanup(st, c) ==
  Log([st EXCEPT !.cleanup[c] = TRUE, !.registered[c] = TRUE], RegisterEv(c))

\* autorun(onCleanup => { s.x + s.y; s.u; if (s.x) onCleanup(fn) })
EffectSum(st, c) ==
  LET a == GetTrap(GetTrap(GetTrap(st, RootKey("x")), RootKey("y")), RootKey("u"))
  IN IF Truthy(RawGet(a, RootKey("x"))) THEN RegisterCleanup(a, c) ELSE a

\* autorun(() => { s.x ? s.y : s.z })
EffectCond(st, c) ==
  LET a == GetTrap(st, RootKey("x"))
  IN IF Truthy(RawGet(a, RootKey("x")))
       THEN GetTrap(a, RootKey("y"))
       ELSE GetTrap(a, RootKey("z"))

\* autorun(onCleanup => { onCleanup(fn); [...s.items] })
EffectList(st, c) ==
  LET a == RegisterCleanup(st, c)
      b == GetTrap(GetTrap(a, RootKey("items")), LenKey)
  IN ReadIndices(b, 0)

\* autorun(() => { s.x; disposeVictim && disposeVictim() })
EffectDisposing(st, c) ==
  LET a == GetTrap(st, RootKey("x"))
  IN IF a.created[Victim] THEN DisposeScope(a, Victim) ELSE a

\* autorun(() => { lastResult = runWithMemo(double) })
EffectMemo(st, c) == runWithMemo(st, "double")

\* autorun(() => { lastResult = runWithMemo(len) })
EffectMemoLen(st, c) == runWithMemo(st, "len")

\* autorun(() => { const result = runWithMemo(fn); applyProp(el, key, result) })
EffectProp(st, c) == runWithMemo(st, PropFn(c))

\* ---- the autorun of a reactive child (jsx.ts appendChild)
\* the ReactiveChild of the host component
RegionInstance(st) ==
  CHOOSE i \in Insts : st.inst[i].kind = "reactiveChild" /\ st.inst[i].type = ""

\* throw new Error(msg)
Throw(st, msg) == [st EXCEPT !.thrown = msg]

\* children.add(i) / newChildren.add(i)
SetAdd(s, i) == IF InSeq(i, s) THEN s ELSE Append(s, i)

\* evaluateKeyedItem(item); st.res is the pair it returns
evaluateKeyedItem(st, item) ==
  (CHOOSE r \in {
    IF item.t = "keyedComponent"
      THEN (CHOOSE r \in {
             IF a.overflow \/ a.thrown # "" THEN a
             ELSE (CHOOSE r \in {
               IF a.inst[i].domRoot = 0
                 THEN Throw(a, "Keyed component did not return a valid DOM node")
                 ELSE [a EXCEPT !.dom.key[a.inst[i].domRoot] = item.key,
                                !.res = [instance |-> i, node |-> a.inst[i].domRoot]]
                                      : i \in {NewInstance(s0) + 1}} : TRUE)
                                      : a \in {evaluateComponentFunction(s0, "Item", s0.cur)}} : TRUE)
      ELSE (CHOOSE r \in {
             IF a.overflow THEN a
             ELSE [a EXCEPT !.res = [instance |-> 0, node |-> NewNode(a)]]
                   : a \in {createElement(s0, item.key)}} : TRUE) : s0 \in {st}} : TRUE)

\* normalizeToInstanceAndNode(item); st.res is the pair it returns
normalizeToInstanceAndNode(st, item) ==
  (CHOOSE r \in {
    CASE item.t = "instance" ->
           IF s0.inst[item.id].domRoot = 0
             THEN Throw(s0, "Component did not return a valid DOM node")
             ELSE [s0 EXCEPT !.res = [instance |-> item.id,
                                      node |-> s0.inst[item.id].domRoot]]
      [] isKeyedItem(item) -> evaluateKeyedItem(s0, item)
      [] OTHER -> [s0 EXCEPT !.res = [instance |-> 0, node |-> item.id]] : s0 \in {st}} : TRUE)

\* InsertResult without reactiveChild.children.add(instance)
InsertResultUnregistered(st, rc, ref) ==
  (CHOOSE r \in {
    (CHOOSE r \in {
      IF s0.res.instance # 0
        THEN callMountCallbacks(a, s0.res.instance)
        ELSE a : a \in {insertBeforeRef(s0, s0.res.node, ref)}} : TRUE) : s0 \in {st}} : TRUE)

\* region.insertBeforeRef(node, null) and the manual registration
InsertResult(st, rc, ref) ==
  (CHOOSE r \in {
    (CHOOSE r \in {
      IF s0.res.instance # 0
        THEN callMountCallbacks([a EXCEPT !.inst[rc].children = SetAdd(@, s0.res.instance)],
                                s0.res.instance)
        ELSE a : a \in {insertBeforeRef(s0, s0.res.node, ref)}} : TRUE) : s0 \in {st}} : TRUE)

\* case 2: a single item
RenderSingle(st, rc, item) ==
  (CHOOSE r \in {
    IF a.thrown # "" \/ a.overflow THEN a
    ELSE InsertResult(clearContent(a), rc, 0) : a \in {normalizeToInstanceAndNode(st, item)}} : TRUE)

RECURSIVE RenderPlain(_, _, _, _)
\* case 3a: for (const item of flattened) ...
RenderPlain(st, rc, items, k) ==
  (CHOOSE r \in {
    IF k > Len(items) \/ s0.thrown # "" \/ s0.overflow THEN s0
    ELSE (CHOOSE r \in {
           IF a.thrown # "" \/ a.overflow THEN a
           ELSE RenderPlain(InsertResult(a, rc, 0), rc, items, k + 1)
                 : a \in {normalizeToInstanceAndNode(s0, items[k])}} : TRUE) : s0 \in {st}} : TRUE)

\* step 0: the nodes of the region without a __key are removed
RemoveUnkeyed(st) ==
  (CHOOSE r \in {
    ClearLoop(s0, SelectSeq(s0.dom.region, LAMBDA n : s0.dom.key[n] = NoNodeKey), 1) : s0 \in {st}} : TRUE)

\* oldByKey: a Map, kept as its entries in insertion order
MapHas(m, key) == \E j \in 1..Len(m) : m[j].key = key
MapGet(m, key) == m[CHOOSE j \in 1..Len(m) : m[j].key = key]
MapSet(m, e) ==
  IF MapHas(m, e.key) THEN [j \in 1..Len(m) |-> IF m[j].key = e.key THEN e ELSE m[j]]
  ELSE Append(m, e)

RECURSIVE OldFromChildren(_, _, _, _)
\* step 1a: the components of the children set whose root carries a key
OldFromChildren(st, cs, k, m) ==
  (CHOOSE r \in {
    IF k > Len(cs) THEN m
    ELSE OldFromChildren(s0, cs, k + 1,
           IF /\ s0.inst[cs[k]].kind = "component"
              /\ s0.inst[cs[k]].domRoot # 0
              /\ s0.dom.key[s0.inst[cs[k]].domRoot] # NoNodeKey
             THEN MapSet(m, [key |-> s0.dom.key[s0.inst[cs[k]].domRoot],
                             instance |-> cs[k], node |-> s0.inst[cs[k]].domRoot])
             ELSE m) : s0 \in {st}} : TRUE)

\* OldFromDOM without the scan: no node of the region is found again
OldFromDOMNoScan(st, ns, k, m) == m

RECURSIVE OldFromDOM(_, _, _, _)
\* step 1b: the keyed nodes of the region whose key is not in the map yet
OldFromDOM(st, ns, k, m) ==
  (CHOOSE r \in {
    IF k > Len(ns) THEN m
    ELSE OldFromDOM(s0, ns, k + 1,
           IF s0.dom.key[ns[k]] # NoNodeKey /\ ~MapHas(m, s0.dom.key[ns[k]])
             THEN Append(m, [key |-> s0.dom.key[ns[k]], instance |-> 0, node |-> ns[k]])
             ELSE m) : s0 \in {st}} : TRUE)

RECURSIVE RemoveGone(_, _, _, _)
\* step 3: the entries whose key is not in the new array are disposed or removed
RemoveGone(st, old, newKeySet, k) ==
  (CHOOSE r \in {
    IF k > Len(old) THEN s0
    ELSE RemoveGone(IF old[k].key \in newKeySet THEN s0
                    ELSE IF old[k].instance # 0 THEN dispose(s0, old[k].instance)
                    ELSE removeChild(s0, old[k].node),
                    old, newKeySet, k + 1) : s0 \in {st}} : TRUE)

\* step 4 without the position test: every kept node is repositioned
NextSiblingIsUnchecked(st, n, ref) == FALSE

\* existing.node.nextSibling === insertBeforeRef (0 is region.end)
NextSiblingIs(st, n, ref) ==
  LET r == st.dom.region
      i == IndexOf(r, n)
  IN i # 0 /\ (IF i = Len(r) THEN ref = 0 ELSE ref = r[i + 1])

\* parentNode.insertBefore(n, ref); a node inserted before itself stays
\* where it is
insertBefore(st, n, ref) ==
  (CHOOSE r \in {
    IF n = ref THEN s0 ELSE insertBeforeRef(s0, n, ref) : s0 \in {st}} : TRUE)

RECURSIVE Reorder(_, _, _, _, _, _, _)
\* steps 4 and 5: the backwards loop over the new array, then the children
\* set replaced by newChildren
Reorder(st, rc, items, old, i, ref, newChildren) ==
  (CHOOSE r \in {
    IF s0.thrown # "" \/ s0.overflow THEN s0
    ELSE IF i < 1 THEN [s0 EXCEPT !.inst[rc].children = newChildren]
    ELSE IF MapHas(old, items[i].key)
      THEN (CHOOSE r \in {
             Reorder(IF NextSiblingIs(s0, existing.node, ref) THEN s0
                     ELSE insertBefore(s0, existing.node, ref),
                     rc, items, old, i - 1, existing.node,
                     IF existing.instance # 0 THEN SetAdd(newChildren, existing.instance)
                     ELSE newChildren) : existing \in {MapGet(old, items[i].key)}} : TRUE)
      ELSE (CHOOSE r \in {
             IF a.thrown # "" \/ a.overflow THEN a
             ELSE Reorder(IF a.res.instance # 0
                            THEN callMountCallbacks(insertBeforeRef(a, a.res.node, ref),
                                                    a.res.instance)
                            ELSE insertBeforeRef(a, a.res.node, ref),
                          rc, items, old, i - 1, a.res.node,
                          IF a.res.instance # 0 THEN SetAdd(newChildren, a.res.instance)
                          ELSE newChildren) : a \in {evaluateKeyedItem(s0, items[i])}} : TRUE)
                                : s0 \in {st}} : TRUE)

\* case 3b: the keyed diff
RenderKeyed(st, rc, items) ==
  (CHOOSE r \in {
    (CHOOSE r \in {
      (CHOOSE r \in {
        (CHOOSE r \in {
          Reorder(b, rc, items, SelectSeq(oldByKey, LAMBDA e : e.key \in newKeySet),
                  Len(items), 0, <<>>) : b \in {RemoveGone(a, oldByKey, newKeySet, 1)}} : TRUE)
                        : newKeySet \in {{items[k].key : k \in 1..Len(items)}}} : TRUE)
                        : oldByKey \in {OldFromDOM(a, a.dom.region, 1, OldFromChildren(a, a.inst[rc].children, 1, <<>>))}} : TRUE)
                        : a \in {RemoveUnkeyed(st)}} : TRUE)

MixedError == "Cannot mix keyed and non-keyed children in the same array"

\* RenderArray without the validation: an array that is not all keyed is
\* rendered as a non-keyed one
RenderArrayUnvalidated(st, rc, items) ==
  (CHOOSE r \in {
    IF \A k \in 1..Len(items) : isKeyedItem(items[k])
      THEN RenderKeyed(s0, rc, items)
      ELSE RenderPlain(clearContent(s0), rc, items, 1) : s0 \in {st}} : TRUE)

\* case 3: an array; mixing keyed and non-keyed items throws
RenderArray(st, rc, items) ==
  (CHOOSE r \in {
    LET hasKeyed == \E k \in 1..Len(items) : isKeyedItem(items[k])
        allKeyed == \A k \in 1..Len(items) : isKeyedItem(items[k])
    IN IF hasKeyed /\ ~allKeyed
         THEN Throw(s0, MixedError)
       ELSE IF ~allKeyed THEN RenderPlain(clearContent(s0), rc, items, 1)
       ELSE RenderKeyed(s0, rc, items) : s0 \in {st}} : TRUE)

\* the value the last runWithMemo call returned
MemoResult(st) ==
  (CHOOSE r \in {
    s0.memoLog[Len(s0.memoLog)].v : s0 \in {st}} : TRUE)

\* autorun(() => { const out = runWithMemo(child); ... }): the cleanup
\* phase disposes every child of the previous run, then the result is rendered
EffectRegion(st, c) ==
  (CHOOSE r \in {
    IF a.overflow THEN a
    ELSE (CHOOSE r \in {
         (CHOOSE r \in {
         (CHOOSE r \in {
           CASE out.kind = "null" -> clearContent(b)
             [] out.kind = "single" -> RenderSingle(b, rc, out.items[1])
             [] OTHER -> RenderArray(b, rc, out.items)
                   : b \in {[DisposeChildren(a, a.inst[rc].children, 1) EXCEPT !.inst[rc].children = <<>>]}} : TRUE)
                   : out \in {MemoResult(a)}} : TRUE) : rc \in {RegionInstance(a)}} : TRUE)
                   : a \in {runWithMemo(st, "view")}} : TRUE)

\* the autorun of a nested reactive child, whose function returns s.x: the
\* cleanup phase, then the region cleared (undefined) or holding one text node
EffectInner(st, c) ==
  (CHOOSE r \in {
    (CHOOSE r \in {
      [DisposeChildren(a, a.inst[rc].children, 1)
         EXCEPT !.inst[rc].children = <<>>,
                !.inst[rc].text = IF MemoResult(a).k = "undef" THEN Undef ELSE MemoResult(a)]
      : rc \in {CHOOSE i \in Insts : a.inst[i].scope = c}} : TRUE)
    : a \in {runWithMemo(st, InnerFn(c))}} : TRUE)

Effect(st, c) ==
  (CHOOSE r \in {
    CASE EffectKind(c) = "sum" -> EffectSum(s0, c)
      [] EffectKind(c) = "cond" -> EffectCond(s0, c)
      [] EffectKind(c) = "list" -> EffectList(s0, c)
      [] EffectKind(c) = "memo" -> EffectMemo(s0, c)
      [] EffectKind(c) = "memoLen" -> EffectMemoLen(s0, c)
      [] EffectKind(c) = "prop" -> EffectProp(s0, c)
      [] EffectKind(c) = "region" -> EffectRegion(s0, c)
      [] EffectKind(c) = "inner" -> EffectInner(s0, c)
      [] OTHER -> EffectDisposing(s0, c) : s0 \in {st}} : TRUE)

\* RunScope whose exit clears the pointer instead of restoring the saved one
RunScopeClearsPointer(st, c) ==
  (CHOOSE r \in {
    [Effect(Log([s0 EXCEPT !.obs = c, !.registered[c] = FALSE, !.lastReads[c] = {}],
                RunEv(c)), c)
       EXCEPT !.obs = 0] : s0 \in {st}} : TRUE)

\* scope.run(): set the pointer, run the effect, restore the pointer
RunScope(st, c) ==
  (CHOOSE r \in {
    LET prev == s0.obs
        a == Log([s0 EXCEPT !.obs = c, !.registered[c] = FALSE, !.lastReads[c] = {}],
                 RunEv(c))
        b == Effect(a, c)
    IN [b EXCEPT !.obs = prev] : s0 \in {st}} : TRUE)

\* ------------------------------------------------------------------ notify
\* NotifyOne without the cleanup call: the listener is only re-run
NotifyOneNoCleanup(st, c) == RunScope(st, c)

\* one listener of notifyListeners: its cleanup, cleared, then its run
NotifyOne(st, c) ==
  (CHOOSE r \in {
    LET a == IF s0.cleanup[c] THEN Log(s0, CleanupEv(c)) ELSE s0
        b == [a EXCEPT !.cleanup[c] = FALSE]
    IN RunScope(b, c) : s0 \in {st}} : TRUE)

RECURSIVE NotifyEach(_, _, _)
NotifyEach(st, ls, i) ==
  (CHOOSE r \in {
    IF i > Len(ls) \/ s0.thrown # "" THEN s0
    ELSE NotifyEach(NotifyOne(s0, ls[i]), ls, i + 1) : s0 \in {st}} : TRUE)

\* notifyListeners going through the copy from its last entry to its first
notifyListenersBackwards(st, key) ==
  (CHOOSE r \in {
    NotifyEach(s0, [k \in 1..Len(s0.listeners[key]) |->
                      s0.listeners[key][Len(s0.listeners[key]) + 1 - k]], 1) : s0 \in {st}} : TRUE)

\* notifyListeners iterates a copy of the listener set taken on entry
notifyListeners(st, key) ==
  (CHOOSE r \in {
    NotifyEach(s0, s0.listeners[key], 1) : s0 \in {st}} : TRUE)

RECURSIVE RunPending(_, _, _)
RunPending(st, pend, i) ==
  (CHOOSE r \in {
    IF i > Len(pend) \/ s0.thrown # "" THEN s0
    ELSE RunPending(notifyListeners(s0, pend[i]), pend, i + 1) : s0 \in {st}} : TRUE)

\* flushNotifications that empties the queue without delivering it
flushNotificationsDropsQueue(st) ==
  (CHOOSE r \in {
    [s0 EXCEPT !.counter = @ + 1, !.pending = <<>>] : s0 \in {st}} : TRUE)

\* flushNotifications: the counter moves, the queue is emptied, then each
\* queued notification is delivered
flushNotifications(st) ==
  (CHOOSE r \in {
    LET pend == s0.pending
        a == [s0 EXCEPT !.counter = @ + 1, !.pending = <<>>]
    IN RunPending(a, pend, 1) : s0 \in {st}} : TRUE)

\* ------------------------------------------------------------------ set / delete traps
\* Reflect.set on the raw object
RawSet(st, key, value) ==
  (CHOOSE r \in {
    IF key[1] = "s" THEN [s0 EXCEPT !.vals[key[2]] = value]
    ELSE IF key[2] = "length"
      THEN [s0 EXCEPT !.arr = IF value.v <= Len(@) THEN SubSeq(@, 1, value.v)
                              ELSE @ \o [j \in 1..(value.v - Len(@)) |-> Undef]]
    ELSE IF key[3] < Len(s0.arr) THEN [s0 EXCEPT !.arr[key[3] + 1] = value]
    ELSE [s0 EXCEPT !.arr = @ \o [j \in 1..(key[3] - Len(@)) |-> Undef] \o <<value>>] : s0 \in {st}} : TRUE)

\* Reflect.deleteProperty on the raw object (an array index becomes a hole)
RawDelete(st, key) ==
  (CHOOSE r \in {
    IF key[1] = "s" THEN [s0 EXCEPT !.vals[key[2]] = Undef]
    ELSE IF key[2] = "idx" /\ key[3] < Len(s0.arr) THEN [s0 EXCEPT !.arr[key[3] + 1] = Undef]
    ELSE s0 : s0 \in {st}} : TRUE)

\* SetTrap without the BATCHING test: every change notifies at once
SetTrapNeverDeferred(st, key, value) ==
  (CHOOSE r \in {
    LET oldValue == RawGet(s0, key)
        a == RawSet(s0, key, value)
    IN IF oldValue # value
         THEN notifyListeners([a EXCEPT !.counter = @ + 1], key)
         ELSE a : s0 \in {st}} : TRUE)

\* the set trap
SetTrap(st, key, value) ==
  (CHOOSE r \in {
    LET oldValue == RawGet(s0, key)
        a == RawSet(s0, key, value)
    IN IF oldValue # value
         THEN IF a.batching
                THEN [a EXCEPT !.pending = Append(@, key)]
                ELSE notifyListeners([a EXCEPT !.counter = @ + 1], key)
         ELSE a : s0 \in {st}} : TRUE)

\* the deleteProperty trap
DeleteTrap(st, key) == notifyListeners(RawDelete(st, key), key)

\* ------------------------------------------------------------------ array mutators
\* The native Array.prototype methods, applied to the proxy: every element
\* write, delete and length write they make goes through the traps above.
NativePush(st, v) ==
  (CHOOSE r \in {
    LET len == Len(s0.arr)
    IN SetTrap(SetTrap(s0, IdxKey(len), v), LenKey, Prim(len + 1)) : s0 \in {st}} : TRUE)

NativePop(st) ==
  (CHOOSE r \in {
    LET len == Len(s0.arr)
    IN IF len = 0 THEN SetTrap(s0, LenKey, Prim(0))
       ELSE SetTrap(DeleteTrap(s0, IdxKey(len - 1)), LenKey, Prim(len - 1)) : s0 \in {st}} : TRUE)

RECURSIVE ShiftLoop(_, _, _)
ShiftLoop(st, k, len) ==
  (CHOOSE r \in {
    IF k >= len THEN s0
    ELSE ShiftLoop(SetTrap(s0, IdxKey(k - 1), RawGet(s0, IdxKey(k))), k + 1, len) : s0 \in {st}} : TRUE)

NativeShift(st) ==
  (CHOOSE r \in {
    LET len == Len(s0.arr)
    IN IF len = 0 THEN SetTrap(s0, LenKey, Prim(0))
       ELSE SetTrap(DeleteTrap(ShiftLoop(s0, 1, len), IdxKey(len - 1)), LenKey, Prim(len - 1))
             : s0 \in {st}} : TRUE)

RECURSIVE UnshiftLoop(_, _)
UnshiftLoop(st, k) ==
  (CHOOSE r \in {
    IF k <= 0 THEN s0
    ELSE UnshiftLoop(SetTrap(s0, IdxKey(k), RawGet(s0, IdxKey(k - 1))), k - 1) : s0 \in {st}} : TRUE)

NativeUnshift(st, v) ==
  (CHOOSE r \in {
    LET len == Len(s0.arr)
    IN SetTrap(SetTrap(UnshiftLoop(s0, len), IdxKey(0), v), LenKey, Prim(len + 1)) : s0 \in {st}} : TRUE)

RECURSIVE ReverseLoop(_, _, _)
ReverseLoop(st, lower, len) ==
  (CHOOSE r \in {
    IF lower >= len \div 2 THEN s0
    ELSE LET upper == len - lower - 1
             lowerValue == RawGet(s0, IdxKey(lower))
             upperValue == RawGet(s0, IdxKey(upper))
         IN ReverseLoop(SetTrap(SetTrap(s0, IdxKey(lower), upperValue), IdxKey(upper), lowerValue),
                        lower + 1, len) : s0 \in {st}} : TRUE)

NativeReverse(st) ==
  (CHOOSE r \in {
    ReverseLoop(s0, 0, Len(s0.arr)) : s0 \in {st}} : TRUE)

RECURSIVE FillLoop(_, _, _)
FillLoop(st, k, v) ==
  (CHOOSE r \in {
    IF k >= Len(s0.arr) THEN s0
    ELSE FillLoop(SetTrap(s0, IdxKey(k), v), k + 1, v) : s0 \in {st}} : TRUE)

NativeFill(st, v) == FillLoop(st, 0, v)

NativeApply(st, m, v) ==
  (CHOOSE r \in {
    CASE m = "push" -> NativePush(s0, v)
      [] m = "pop" -> NativePop(s0)
      [] m = "shift" -> NativeShift(s0)
      [] m = "unshift" -> NativeUnshift(s0, v)
      [] m = "reverse" -> NativeReverse(s0)
      [] OTHER -> NativeFill(s0, v) : s0 \in {st}} : TRUE)

\* the wrapper the get trap returns for a mutating array method
MutatorWrapper(st, m, v) ==
  (CHOOSE r \in {
    (CHOOSE q \in {IF ~s0.batching THEN flushNotifications(c) ELSE c
                   : c \in {notifyListeners(notifyListeners(
                               [NativeApply([s0 EXCEPT !.batching = TRUE], m, v)
                                  EXCEPT !.batching = s0.batching],
                               MethKey(m)), LenKey)}} : TRUE)
    : s0 \in {st}} : TRUE)

\* ------------------------------------------------------------------ actions
Op(name, key, c, changed, flushed) ==
  [op |-> name, key |-> key, c |-> c, changed |-> changed,
   batching |-> BATCHING, flushed |-> flushed]
\* lastOp of a batch exit: changed tells whether it was the outermost one

Commit(st, op) ==
  \E s0 \in {st} :
    /\ s0.counter <= MaxChanges
    /\ vals' = s0.vals
    /\ arr' = s0.arr
    /\ proxies' = s0.proxies
    /\ listeners' = s0.listeners
    /\ subs' = s0.subs
    /\ cleanup' = s0.cleanup
    /\ created' = s0.created
    /\ disposed' = s0.disposed
    /\ registered' = s0.registered
    /\ lastReads' = s0.lastReads
    /\ CURRENT_OBSERVATION' = s0.obs
    /\ BATCHING' = s0.batching
    /\ PENDING_NOTIFICATIONS' = s0.pending
    /\ CHANGE_COUNTER' = s0.counter
    /\ trace' = s0.trace
    /\ lastOp' = op
    /\ memoCache' = s0.memo
    /\ memoCalls' = s0.calls
    /\ memoLog' = s0.memoLog
    /\ ~s0.overflow
    /\ inst' = s0.inst
    /\ CURRENT_INSTANCE' = s0.cur
    /\ dom' = s0.dom
    /\ ilog' = s0.ilog
    /\ thrown' = s0.thrown

CanStart == Len(PENDING_NOTIFICATIONS) < MaxPending

\* the object handed to createState
InitialVals ==
  [p \in RootProps |->
     CASE p = "u" -> Raw(2)
       [] p = "items" -> ItemsArray
       [] p = "x" -> Prim(MaxVal)
       [] p = "list" -> List(<<>>, 0)
       [] OTHER -> Prim(0)]

InitRest ==
  /\ arr = <<Prim(0), Prim(MaxVal)>>
  /\ proxies = <<>>
  /\ listeners = [k \in Keys |-> <<>>]
  /\ subs = [c \in Comps |-> {}]
  /\ cleanup = [c \in Comps |-> FALSE]
  /\ created = [c \in Comps |-> FALSE]
  /\ disposed = [c \in Comps |-> FALSE]
  /\ registered = [c \in Comps |-> FALSE]
  /\ lastReads = [c \in Comps |-> {}]
  /\ CURRENT_OBSERVATION = 0
  /\ BATCHING = FALSE
  /\ batchStack = <<>>
  /\ PENDING_NOTIFICATIONS = <<>>
  /\ CHANGE_COUNTER = 0
  /\ trace = <<>>
  /\ lastOp = [op |-> "init", key |-> NoKey, c |-> 0, changed |-> FALSE,
               batching |-> FALSE, flushed |-> <<>>]
  /\ memoCache = [f \in MemoFns |-> NoMemoCache]
  /\ memoCalls = [f \in MemoFns |-> [id |-> -1, n |-> 0, v |-> Undef]]
  /\ memoLog = <<>>
  /\ inst = [i \in Insts |-> NoInstance]
  /\ CURRENT_INSTANCE = 0
  /\ dom = [count |-> 0, parent |-> [n \in Nodes |-> 0], key |-> [n \in Nodes |-> NoNodeKey],
            region |-> <<>>, cached |-> 0]
  /\ ilog = <<>>
  /\ thrown = ""

Init == vals = InitialVals /\ InitRest

\* the arrays s.list can hold
RECURSIVE SeqsUpTo(_, _)
SeqsUpTo(S, n) ==
  IF n = 0 THEN {<<>>}
  ELSE SeqsUpTo(S, n - 1) \cup {Append(q, x) : q \in SeqsUpTo(S, n - 1), x \in S}
KeyLists == SeqsUpTo(0..MaxKey, MaxItems)

\* createState({ mode: m, list: l, ... })
InitRegion ==
  /\ \E m \in 1..Len(Modes), l \in KeyLists :
       vals = [InitialVals EXCEPT !["mode"] = Prim(m - 1), !["list"] = List(l, 0)]
  /\ InitRest

\* autorun(effect): the first run, then the disposer becomes available
Autorun(c) ==
  /\ ~created[c]
  /\ Commit([RunScope(Cur, c) EXCEPT !.created[c] = TRUE],
            Op("autorun", NoKey, c, FALSE, <<>>))
  /\ UNCHANGED batchStack

\* a call of the disposer autorun(c) returned
Dispose(c) ==
  /\ created[c]
  /\ Commit(DisposeScope(Cur, c), Op("dispose", NoKey, c, FALSE, <<>>))
  /\ UNCHANGED batchStack

\* s.p = v for a primitive property
SetProp(p, v) ==
  /\ CanStart
  /\ Commit(SetTrap(Cur, RootKey(p), v),
            Op("set", RootKey(p), 0, vals[p] # v, <<>>))
  /\ UNCHANGED batchStack

\* s.u = {...}: one of the plain nested objects
SetObject(o) ==
  /\ CanStart
  /\ Commit(SetTrap(Cur, RootKey("u"), o),
            Op("set", RootKey("u"), 0, vals["u"] # o, <<>>))
  /\ UNCHANGED batchStack

\* s.u = s.u: the value read through the store, written back
SetSame ==
  /\ CanStart
  /\ Len(proxies) < MaxProxies
  /\ LET a == GetTrap(Cur, RootKey("u"))
     IN Commit(SetTrap(a, RootKey("u"), GetValue(Cur, RootKey("u"))),
               Op("setSame", RootKey("u"), 0, FALSE, <<>>))
  /\ UNCHANGED batchStack

\* an operation that returns handles: lastOp also carries them
OpRead(name, key, handles) ==
  [op |-> name, key |-> key, c |-> 0, changed |-> FALSE,
   batching |-> BATCHING, flushed |-> <<>>, result |-> handles]

\* const a = s.p; const b = s.p  for an object-valued property p
ReadNested(p) ==
  /\ IsObject(vals[p])
  /\ Len(proxies) < MaxProxies
  /\ LET a == GetTrap(Cur, RootKey(p))
         b == GetTrap(a, RootKey(p))
     IN Commit(b, OpRead("read", RootKey(p),
                         <<GetValue(Cur, RootKey(p)), GetValue(a, RootKey(p))>>))
  /\ UNCHANGED batchStack

\* const a = createState(o); const b = createState(o)  for one raw object o
CreateState(o) ==
  /\ Len(proxies) < MaxProxies
  /\ LET t == createReactiveProxyTable(proxies, o)
         u == createReactiveProxyTable(t, o)
     IN Commit([Cur EXCEPT !.proxies = u],
               OpRead("wrap", NoKey,
                      <<createReactiveProxy(proxies, o), createReactiveProxy(t, o)>>))
  /\ UNCHANGED batchStack

\* s.items[i] = v
SetIndex(i, v) ==
  /\ CanStart
  /\ i < Len(arr)
  /\ Commit(SetTrap(Cur, IdxKey(i), v),
            Op("set", IdxKey(i), 0, arr[i + 1] # v, <<>>))
  /\ UNCHANGED batchStack

\* delete s.p
DeleteProp(p) ==
  /\ CanStart
  /\ Commit(DeleteTrap(Cur, RootKey(p)), Op("delete", RootKey(p), 0, TRUE, <<>>))
  /\ UNCHANGED batchStack

\* s.items.m(v)
Mutate(m, v) ==
  /\ CanStart
  /\ m \in {"push", "unshift"} => Len(arr) < MaxLen
  /\ Commit(MutatorWrapper(Cur, m, v), Op("mutate", MethKey(m), 0, TRUE, <<>>))
  /\ UNCHANGED batchStack

\* const app = render(h(type, null), container)
RenderRoot(type) ==
  /\ NewInstance(Cur) = 0
  /\ \E a \in {evaluateComponentFunction(Cur, type, CURRENT_INSTANCE)} :
       Commit(IF a.overflow \/ a.thrown # "" THEN a
              ELSE callMountCallbacks(appendToParent(a, a.inst[1].domRoot, ContainerNode), 1),
              Op("render", NoKey, 0, FALSE, <<>>))
  /\ UNCHANGED batchStack

\* app.dispose(): rootComponent?.dispose(), once render has returned app
DisposeHandle ==
  /\ inst[1].kind = "component"
  /\ inst[1].domRoot # 0 \/ inst[1].isDisposed
  /\ Commit(dispose(Cur, 1), Op("disposeHandle", NoKey, 0, FALSE, <<>>))
  /\ UNCHANGED batchStack

\* render(app, container) called again with the component rendered before
RenderAgain ==
  /\ inst[1].kind = "component"
  /\ Commit(IF inst[1].domRoot # 0
              THEN callMountCallbacks(appendToParent(Cur, inst[1].domRoot, ContainerNode), 1)
              ELSE Cur,
            Op("renderAgain", NoKey, 0, FALSE, <<>>))
  /\ UNCHANGED batchStack

\* instance.dispose() called on one instance of the tree
DisposeInstance(i) ==
  /\ inst[i].kind # "none"
  /\ Commit(dispose(Cur, i), Op("disposeInstance", NoKey, 0, FALSE, <<>>))
  /\ UNCHANGED batchStack

\* s.mode = m
SetMode(m) ==
  /\ CanStart
  /\ Commit(SetTrap(Cur, RootKey("mode"), Prim(m)),
            Op("set", RootKey("mode"), 0, vals["mode"] # Prim(m), <<>>))
  /\ UNCHANGED batchStack

\* s.list = [...]: a new array each time, so the write always counts as a change
SetList(l) ==
  /\ CanStart
  /\ Commit(SetTrap(Cur, RootKey("list"), List(l, 1 - vals["list"].id)),
            Op("set", RootKey("list"), 0, TRUE, <<>>))
  /\ UNCHANGED batchStack

\* s.mode = m; s.mode = 0: a reactive child that shows null renders a value
\* and then null again
RenderCycle(m) ==
  /\ CanStart
  /\ created[RegionComp] /\ ~disposed[RegionComp]
  /\ ModeOf(vals["mode"]) = "null"
  /\ \E a \in {SetTrap(Cur, RootKey("mode"), Prim(m))} :
       Commit(IF a.thrown # "" \/ a.overflow THEN a
              ELSE SetTrap(a, RootKey("mode"), Prim(0)),
              Op("cycle", RootKey("mode"), 0, TRUE, <<>>))
  /\ UNCHANGED batchStack

\* runWithMemo(fn) called outside any computation
CallMemo(fn) ==
  /\ Commit(runWithMemo(Cur, fn), Op("callMemo", NoKey, 0, FALSE, <<>>))
  /\ UNCHANGED batchStack

\* batch(fn): entry; fn is the operations up to the matching EndBatch
BeginBatch ==
  /\ Len(batchStack) < MaxBatchDepth
  /\ batchStack' = Append(batchStack, BATCHING)
  /\ Commit([Cur EXCEPT !.batching = TRUE], Op("beginBatch", NoKey, 0, FALSE, <<>>))

\* batchFinally without the wasBatching test: every batch exit flushes
batchFinallyAlwaysFlush(st, wasBatching) ==
  flushNotifications([st EXCEPT !.batching = wasBatching])

\* batch(fn): the finally block, once fn has returned
batchFinally(st, wasBatching) ==
  LET a == [st EXCEPT !.batching = wasBatching]
  IN IF ~wasBatching THEN flushNotifications(a) ELSE a

EndBatch ==
  /\ batchStack # <<>>
  /\ LET wasBatching == batchStack[Len(batchStack)]
     IN /\ batchStack' = SubSeq(batchStack, 1, Len(batchStack) - 1)
        /\ Commit(batchFinally(Cur, wasBatching),
                  Op("endBatch", NoKey, 0, ~wasBatching,
                     IF ~wasBatching THEN PENDING_NOTIFICATIONS ELSE <<>>))

\* ------------------------------------------------------------------ specifications
\* primitive property writes and deletions outside any batch
PropComps == CompsOf({"sum", "cond", "disposing"})
NextProps ==
  \/ \E c \in PropComps : Autorun(c)
  \/ \E c \in PropComps : Dispose(c)
  \/ \E p \in PrimProps, v \in Prims : SetProp(p, v)
  \/ \E p \in PrimProps : DeleteProp(p)

Spec == Init /\ [][NextProps]_vars

\* writes of object values
ObjectComps == CompsOf({"sum"})
NextObject ==
  \/ \E c \in ObjectComps : Autorun(c)
  \/ \E c \in ObjectComps : Dispose(c)
  \/ \E p \in PrimProps, v \in Prims : SetProp(p, v)
  \/ \E o \in NestedObjects : SetObject(o)
  \/ SetSame
  \/ \E p \in {"u", "items"} : ReadNested(p)
  \/ \E o \in NestedObjects : CreateState(o)

SpecObject == Init /\ [][NextObject]_vars

\* property writes inside and outside batch() calls
BatchComps == CompsOf({"sum", "cond"})
BatchProps == {"x", "y"}
NextBatch ==
  \/ \E c \in BatchComps : Autorun(c)
  \/ \E c \in BatchComps : Dispose(c)
  \/ \E p \in BatchProps, v \in Prims : SetProp(p, v)
  \/ BeginBatch
  \/ EndBatch

SpecBatch == Init /\ [][NextBatch]_vars

\* array mutators, index writes and deletions, inside and outside batch()
ArrayComps == CompsOf({"list", "cond"})
NextArray ==
  \/ \E c \in ArrayComps : Autorun(c)
  \/ \E i \in 0..(MaxLen - 1), v \in Prims : SetIndex(i, v)
  \/ \E p \in PrimProps : DeleteProp(p)
  \/ \E m \in ARRAY_MUTATORS, v \in Prims : Mutate(m, v)
  \/ BeginBatch
  \/ EndBatch

SpecArray == Init /\ [][NextArray]_vars

\* runWithMemo called from computations and directly, between store changes
MemoComps == CompsOf({"memo"})
MemoMutators == {"push", "pop"}
\* the functions handed to runWithMemo directly
DirectMemoFns == {"double", "len"}
NextMemo ==
  \/ \E c \in MemoComps : Autorun(c)
  \/ \E fn \in DirectMemoFns : CallMemo(fn)
  \/ \E v \in Prims : SetProp("x", v)
  \/ DeleteProp("x")
  \/ BeginBatch
  \/ EndBatch

SpecMemo == Init /\ [][NextMemo]_vars

\* runWithMemo in computations re-run by deletions and array mutators
MemoArrayComps == CompsOf({"memoLen"}) \cup {CHOOSE c \in Comps : EffectKind(c) = "memo"}
NextMemoArray ==
  \/ \E c \in MemoArrayComps : Autorun(c)
  \/ \E v \in Prims : SetProp("x", v)
  \/ DeleteProp("x")
  \/ \E m \in MemoMutators, v \in Prims : Mutate(m, v)

SpecMemoArray == Init /\ [][NextMemoArray]_vars

\* static component trees: rendered, written to, disposed
RootTypes == {"Parent", "Child", "GrandChild"}
NextTree ==
  \/ \E type \in RootTypes : RenderRoot(type)
  \/ DisposeHandle
  \/ \E i \in Insts : DisposeInstance(i)
  \/ \E v \in Prims : SetProp("x", v)

SpecTree == Init /\ [][NextTree]_vars

\* one reactive child: mounted, its inputs written, the tree disposed
NextRegion ==
  \/ RenderRoot("Host")
  \/ \E m \in 0..(Len(Modes) - 1) : SetMode(m)
  \/ \E l \in KeyLists : SetList(l)
  \/ DisposeHandle

SpecRegion == InitRegion /\ [][NextRegion]_vars

\* one reactive child whose content holds computations of its own: a
\* reactive prop, a nested reactive child, a component with a reactive prop
ModeIds(names) == {m \in 0..(Len(AllModes) - 1) : AllModes[m + 1] \in names}
NestedModeIds ==
  ModeIds({"null", "component", "mixed", "propElement", "nested", "handler"})

\* createState({ mode: m, list: [0], x: 1, y: 0 })
InitNested ==
  /\ \E m \in NestedModeIds :
       vals = [InitialVals EXCEPT !["mode"] = Prim(m), !["list"] = List(<<0>>, 0)]
  /\ InitRest

NextNested ==
  \/ RenderRoot("Host")
  \/ \E m \in NestedModeIds : SetMode(m)
  \/ \E p \in {"x", "y"}, v \in Prims : SetProp(p, v)
  \/ DeleteProp("x")
  \/ \E m \in NestedModeIds \ ModeIds({"null"}) : RenderCycle(m)
  \/ DisposeHandle

SpecNested == InitNested /\ [][NextNested]_vars

\* components rendered by render, as static children and as results of a
\* reactive child
MountModeIds == ModeIds({"null", "component", "keyedComponents"})
InitMount ==
  /\ \E m \in MountModeIds, l \in KeyLists :
       vals = [InitialVals EXCEPT !["mode"] = Prim(m), !["list"] = List(l, 0)]
  /\ InitRest

NextMount ==
  \/ \E type \in {"Host", "Parent"} : RenderRoot(type)
  \/ RenderAgain
  \/ \E m \in MountModeIds : SetMode(m)
  \/ \E l \in KeyLists : SetList(l)
  \/ DisposeHandle
  \/ \E i \in Insts : DisposeInstance(i)

SpecMount == InitMount /\ [][NextMount]_vars

\* a reactive child whose function can return the node it returned before
SameModeIds == ModeIds({"null", "element", "cached", "keyed"})
InitSame ==
  /\ \E m \in SameModeIds, l \in KeyLists :
       vals = [InitialVals EXCEPT !["mode"] = Prim(m), !["list"] = List(l, 0)]
  /\ InitRest

NextSame ==
  \/ RenderRoot("Host")
  \/ \E m \in SameModeIds : SetMode(m)
  \/ \E v \in Prims : SetProp("y", v)
  \/ \E l \in KeyLists : SetList(l)
  \/ DisposeHandle

SpecSame == InitSame /\ [][NextSame]_vars

\* ------------------------------------------------------------------ properties
RunCount(tr, c) == Cardinality({i \in 1..Len(tr) : tr[i] = RunEv(c)})
HasRun(tr, c) == \E i \in 1..Len(tr) : tr[i] = RunEv(c)
NoRuns(tr) == \A i \in 1..Len(tr) : tr[i].e # "run"
IsPrefix(s, t) == Len(s) <= Len(t) /\ SubSeq(t, 1, Len(s)) = s

\* whether the run of c before position i of tr registered a cleanup; reg0
\* answers for a run made before tr began
PrevRegistered(tr, i, c, reg0) ==
  LET prior == {j \in 1..(i - 1) : tr[j] = RunEv(c)}
  IN IF prior = {} THEN reg0
     ELSE LET j == CHOOSE m \in prior : \A n \in prior : n <= m
          IN \E k \in (j + 1)..(i - 1) : tr[k] = RegisterEv(c)

\* C1: an unbatched write that changes o.p re-runs every non-disposed
\* computation that read p in its most recent run before the write returns;
\* each re-run comes right after one call of the cleanup the computation
\* registered in its previous run, if it registered one, and the cleanup
\* slot then holds only what the new run registered.
C1_WriteRerunsAfterCleanup ==
  [][(lastOp'.op = "set" /\ lastOp'.changed /\ ~lastOp'.batching) =>
       \A c \in Comps :
         (created[c] /\ ~disposed[c]) =>
           /\ lastOp'.key \in lastReads[c] => HasRun(trace', c)
           /\ \A i \in 1..Len(trace') :
                trace'[i] = RunEv(c) =>
                  IF PrevRegistered(trace', i, c, registered[c])
                    THEN i > 1 /\ trace'[i - 1] = CleanupEv(c)
                    ELSE i = 1 \/ trace'[i - 1] # CleanupEv(c)
           /\ (HasRun(trace', c) /\ ~disposed'[c]) => cleanup'[c] = registered'[c]]_vars

C1_Witness ==
  /\ lastOp.op = "set" /\ lastOp.changed /\ ~lastOp.batching
  /\ \E c \in Comps, i \in 1..Len(trace) :
       /\ ~disposed[c]
       /\ i > 1 /\ trace[i - 1] = CleanupEv(c) /\ trace[i] = RunEv(c)
       /\ ~registered[c]

\* C2: writing to a property the value it already holds, the value read
\* through the store for an object (s.u = s.u), re-runs no computation.
C2_SameValueNoRerun ==
  (lastOp.op = "setSame" \/ (lastOp.op = "set" /\ ~lastOp.changed)) => NoRuns(trace)

\* C3: once the disposer of a computation has been called, the computation
\* is in no listener set and no later operation runs its effect.
C3_DisposedNeverRuns ==
  [][\A c \in Comps :
       /\ disposed'[c] => \A k \in Keys : ~InSeq(c, listeners'[k])
       /\ disposed[c] => ~HasRun(trace', c)]_vars

\* C4: a write to p re-runs only computations that read p in their most
\* recent run.
C4_OnlyCurrentReadersRerun ==
  [][lastOp'.op = "set" =>
       \A c \in Comps : HasRun(trace', c) => lastOp'.key \in lastReads[c]]_vars

\* C5: a changed assignment made while a batch is open runs no computation
\* and is queued; the dependents of the queued properties run when the
\* outermost batch completes.
C5_BatchDefersRuns ==
  [][/\ (lastOp'.op = "set" /\ lastOp'.batching) =>
          /\ trace' = <<>>
          /\ lastOp'.changed => PENDING_NOTIFICATIONS' = Append(PENDING_NOTIFICATIONS, lastOp'.key)
     /\ (lastOp'.op = "endBatch" /\ lastOp'.changed) =>
          \A i \in 1..Len(PENDING_NOTIFICATIONS) : \A c \in Comps :
            InSeq(c, listeners[PENDING_NOTIFICATIONS[i]]) => HasRun(trace', c)]_vars

C5_Witness ==
  /\ lastOp.op = "endBatch" /\ lastOp.changed
  /\ lastOp.flushed # <<>>
  /\ \E c \in Comps : HasRun(trace, c)

\* C6: with one computation that reads x and y, a batch that changes x and
\* y runs the computation exactly once when it completes.
C6_BatchRunsOnce ==
  (/\ lastOp.op = "endBatch" /\ lastOp.changed
   /\ lastOp.flushed \in {<<RootKey("x"), RootKey("y")>>, <<RootKey("y"), RootKey("x")>>}) =>
    \A c \in Comps :
      (created[c] /\ {RootKey("x"), RootKey("y")} \subseteq lastReads[c]) =>
        RunCount(trace, c) = 1

\* C7: a property assigned a changed value several times within one batch
\* re-runs each of its subscribers exactly once at the flush.
C7_SamePropertyRunsOnce ==
  (/\ lastOp.op = "endBatch" /\ lastOp.changed
   /\ Len(lastOp.flushed) >= 2
   /\ \A i \in 1..Len(lastOp.flushed) : lastOp.flushed[i] = lastOp.flushed[1]) =>
    \A c \in Comps :
      lastOp.flushed[1] \in subs[c] => RunCount(trace, c) = 1

\* C8: the exit of a nested batch runs nothing and keeps the queue; the
\* queue only grows while any batch is open; the exit of the outermost batch
\* empties the queue and leaves BATCHING false.
C8_NestedBatchTransparent ==
  [][/\ (lastOp'.op = "endBatch" /\ ~lastOp'.changed) =>
          /\ trace' = <<>>
          /\ PENDING_NOTIFICATIONS' = PENDING_NOTIFICATIONS
          /\ BATCHING'
     /\ (batchStack # <<>> /\ batchStack' # <<>>) =>
          IsPrefix(PENDING_NOTIFICATIONS, PENDING_NOTIFICATIONS')
     /\ (lastOp'.op = "endBatch" /\ lastOp'.changed) =>
          /\ PENDING_NOTIFICATIONS' = <<>>
          /\ ~BATCHING'
          /\ batchStack' = <<>>]_vars

C8_Witness ==
  /\ lastOp.op = "endBatch" /\ ~lastOp.changed
  /\ PENDING_NOTIFICATIONS # <<>>
  /\ \E c \in Comps : InSeq(c, listeners[PENDING_NOTIFICATIONS[1]])

\* C9: while a batch is open, an array mutator call or a property deletion
\* runs no computation.
C9_BatchDefersMutators ==
  (lastOp.op \in {"mutate", "delete"} /\ lastOp.batching) => NoRuns(trace)

\* C10: outside any batch, one array mutator call re-runs each computation
\* at most once, and each computation subscribed to length exactly once.
C10_MutatorRunsOnce ==
  (lastOp.op = "mutate" /\ ~lastOp.batching) =>
    \A c \in Comps :
      /\ RunCount(trace, c) <= 1
      /\ LenKey \in subs[c] => RunCount(trace, c) = 1

\* C11: between two increments of the change counter, the runWithMemo calls
\* for one function invoke it exactly once and all return the value of that
\* invocation, whichever computation makes them; calls for another function
\* do not disturb this.
C11_MemoOncePerCycle ==
  \A i \in 1..Len(memoLog) : memoLog[i].n = 1 /\ memoLog[i].v = memoLog[i].v0

C11_Witness ==
  /\ lastOp.op = "set" /\ lastOp.changed
  /\ \E i, j \in 1..Len(memoLog) :
       /\ i < j /\ memoLog[i].f = memoLog[j].f
       /\ memoLog[i].fresh /\ ~memoLog[j].fresh /\ memoLog[j].v = memoLog[i].v
  /\ \E g \in MemoFns : memoCache[g].has /\ memoCache[g].changeId < CHANGE_COUNTER

\* C12: when a store change (assignment, deletion, array mutator) re-runs a
\* computation, a runWithMemo call in the re-run is not answered with a value
\* cached before the change: the function is invoked anew in that operation.
C12_RerunRecomputes ==
  lastOp.op \in {"set", "delete", "mutate"} =>
    \A i \in 1..Len(memoLog) :
      memoLog[i].fresh \/ \E j \in 1..(i - 1) :
                            memoLog[j].f = memoLog[i].f /\ memoLog[j].fresh

\* C13: wrapping one underlying object any number of times gives one handle
\* (the cache holds one proxy per target and never replaces it), and reading
\* the same object- or array-valued property repeatedly gives the same
\* handle each time.
C13_WrapReturnsSameHandle ==
  [][/\ IsPrefix(proxies, proxies')
     /\ \A i, j \in 1..Len(proxies') : proxies'[i] = proxies'[j] => i = j
     /\ lastOp'.op \in {"read", "wrap"} =>
          /\ lastOp'.result[1] = lastOp'.result[2]
          /\ lastOp'.result[1].k = "proxy"
          /\ lastOp'.op = "read" =>
               proxies'[lastOp'.result[1].v] = vals'[lastOp'.key[2]]]_vars

C13_Witness ==
  /\ lastOp.op = "read"
  /\ lastOp.result[1] = lastOp.result[2]
  /\ Len(proxies) >= 2
  /\ \E c \in Comps : created[c]

\* positions of instance events in a log
EventAt(log, p, e, i) == log[p].e = e /\ log[p].i = i
AllOnes(s) == \A k \in 1..Len(s) : s[k] = 1

C15_ChildrenBeforeOwnCleanups ==
  [][\A i \in Insts :
       LET cs == inst[i].children
           log == ilog'
       IN /\ \A p \in 1..Len(log) :
               (EventAt(log, p, "cleanup", i) \/ EventAt(log, p, "disposal", i)) =>
                 \A k \in 1..Len(cs) :
                   /\ \E q \in 1..(p - 1) : EventAt(log, q, "disposed", cs[k])
                   /\ inst'[cs[k]].isDisposed /\ AllOnes(inst'[cs[k]].ran)
                   /\ \A r \in 1..Len(log) :
                        (log[r].i = cs[k] /\ log[r].e \in {"cleanup", "disposal", "dispose", "disposed"})
                          => r < p
          /\ (\E p \in 1..Len(log) : EventAt(log, p, "dispose", i) /\ log[p].a = 1) =>
               \A k, m \in 1..Len(cs) :
                 k < m => \E q, r \in 1..Len(log) :
                            /\ q < r
                            /\ EventAt(log, q, "disposed", cs[k])
                            /\ EventAt(log, r, "dispose", cs[m]) /\ log[r].a = 1]_vars

C15_Witness ==
  /\ lastOp.op = "disposeHandle"
  /\ inst[1].type = "Parent"
  /\ Len(inst[1].ran) = 1 /\ inst[1].ran[1] = 1
  /\ Cardinality({j \in Insts : \E p \in 1..Len(ilog) :
                     EventAt(ilog, p, "dispose", j) /\ ilog[p].a = 1}) >= 4
  /\ \E p \in 1..Len(ilog) : EventAt(ilog, p, "cleanup", 1)

\* ---- reactive children
\* the "construct" events of components whose parent is of the given kind
ConstructsUnder(log, kind) ==
  {k \in 1..Len(log) : /\ log[k].e = "construct"
                       /\ inst[log[k].i].kind = "component"
                       /\ log[k].a # 0
                       /\ inst[log[k].a].kind = kind}

\* C16: constructing a component whose parent is a ReactiveChild leaves that
\* ReactiveChild's children set unchanged, while constructing it with a
\* component parent adds it to that parent's children set.
C16_ConstructorRegistration ==
  /\ \A k \in ConstructsUnder(ilog, "reactiveChild") : ilog[k].b = 0
  /\ \A k \in ConstructsUnder(ilog, "component") : ilog[k].b = 1

\* a component was constructed under a ReactiveChild and another one under
\* a component
C16_Witness ==
  /\ ConstructsUnder(ilog, "reactiveChild") # {}
  /\ ConstructsUnder(ilog, "component") # {}

\* what runWithMemo(view) returned in the last operation, and what the
\* function's cache held before it
ViewResults(log) == SelectSeq(log, LAMBDA e : e.f = "view")
LastResult(log) == ViewResults(log)[Len(ViewResults(log))].v
AllItemsOf(out, t) == out.kind = "array" /\ \A k \in 1..Len(out.items) : out.items[k].t = t
KeysOf(out) == {out.items[k].key : k \in 1..Len(out.items)}
Range(q) == {q[k] : k \in 1..Len(q)}
LogHas(log, e) == \E k \in 1..Len(log) : log[k].e = e

\* this step is a write that re-ran the reactive child
RegionReran ==
  /\ lastOp'.op = "set"
  /\ memoCache["view"].has
  /\ HasRun(trace', RegionComp)
  /\ ViewResults(memoLog') # <<>>

\* C17: when a reactive child re-renders an all-keyed array of plain
\* elements, every key present before and after keeps the identical node,
\* a node is created only for a key that was not present before, and a node
\* is removed only for a key that is no longer present.
C17_KeyedElementsKeepNodes ==
  [][(/\ RegionReran
      /\ AllItemsOf(memoCache["view"].value, "keyedElement")
      /\ AllItemsOf(LastResult(memoLog'), "keyedElement"))
     => LET oldKeys == {dom.key[n] : n \in Range(dom.region)}
            newKeys == KeysOf(LastResult(memoLog'))
        IN /\ thrown' = ""
           /\ \A n \in Range(dom.region) :
                dom.key[n] \in newKeys => InSeq(n, dom'.region) /\ dom'.key[n] = dom.key[n]
           /\ \A n \in (dom.count + 1)..dom'.count : dom'.key[n] \notin oldKeys
           /\ \A n \in Range(dom.region) :
                ~InSeq(n, dom'.region) => dom.key[n] \notin newKeys]_vars

\* a write re-rendered a keyed array of two plain elements with distinct
\* keys: no node was created, one was moved, and the region holds the two
\* nodes in the new order
C17_Witness ==
  /\ lastOp.op = "set"
  /\ thrown = ""
  /\ HasRun(trace, RegionComp)
  /\ ViewResults(memoLog) # <<>>
  /\ LET new == LastResult(memoLog)
     IN /\ AllItemsOf(new, "keyedElement")
        /\ Len(new.items) = 2
        /\ new.items[1].key # new.items[2].key
        /\ Len(dom.region) = 2
        /\ dom.key[dom.region[1]] = new.items[1].key
        /\ dom.key[dom.region[2]] = new.items[2].key
  /\ ~LogHas(ilog, "createNode")
  /\ LogHas(ilog, "insert")

\* the components a reactive child holds whose root carries one of the keys
KeyedChildren(instances, d, rc, keys) ==
  {i \in Range(instances[rc].children) :
     /\ instances[i].kind = "component"
     /\ instances[i].domRoot # 0
     /\ d.key[instances[i].domRoot] \in keys}

\* C18: when a reactive child re-renders an all-keyed array of components, a
\* component whose key is present before and after is neither disposed nor
\* re-created: its cleanups do not fire, no new component is made for its
\* key, and its root node stays in the region.
C18_KeyedComponentsKept ==
  [][(/\ RegionReran
      /\ AllItemsOf(memoCache["view"].value, "keyedComponent")
      /\ AllItemsOf(LastResult(memoLog'), "keyedComponent"))
     => \A i \in KeyedChildren(inst, dom, RegionInstance(Cur), KeysOf(LastResult(memoLog'))) :
          /\ ~inst'[i].isDisposed
          /\ inst'[i].ran = inst[i].ran
          /\ InSeq(inst[i].domRoot, dom'.region)
          /\ \A j \in Insts : inst[j].kind = "none" /\ inst'[j].kind = "component"
                                => dom'.key[inst'[j].domRoot] # dom.key[inst[i].domRoot]]_vars

\* the keys of the items of an array, in order
KeySeq(out) == [k \in 1..Len(out.items) |-> out.items[k].key]
IsKeyed(out) ==
  out.kind = "array" /\ \A k \in 1..Len(out.items) : isKeyedItem(out.items[k])
UniqueKeys(out) ==
  \A j, k \in 1..Len(out.items) : j # k => out.items[j].key # out.items[k].key

IsMixed(out) ==
  /\ out.kind = "array"
  /\ \E k \in 1..Len(out.items) : isKeyedItem(out.items[k])
  /\ \E k \in 1..Len(out.items) : ~isKeyedItem(out.items[k])

\* C20: if the array a reactive child's function returns holds at least one
\* keyed and at least one non-keyed item, the evaluation throws "Cannot mix
\* keyed and non-keyed children in the same array", on the initial render
\* and on every later re-run.
C20_MixedArrayThrows ==
  (/\ lastOp.op \in {"render", "set"}
   /\ HasRun(trace, RegionComp)
   /\ ViewResults(memoLog) # <<>>
   /\ IsMixed(LastResult(memoLog)))
  => thrown = MixedError

\* the initial render threw, leaving the host without a root node, and a
\* later write re-ran the reactive child with a mixed array and threw again
C20_Witness ==
  /\ lastOp.op = "set"
  /\ inst[1].kind = "component" /\ inst[1].domRoot = 0 /\ ~inst[1].isDisposed
  /\ HasRun(trace, RegionComp)
  /\ ViewResults(memoLog) # <<>>
  /\ IsMixed(LastResult(memoLog))
  /\ thrown = MixedError

\* C22: when a component's render function or a reactive child's evaluation
\* throws, then once the exception has left the outermost component
\* evaluation the current-instance pointer has the value it had before that
\* evaluation was entered.
C22_InstancePointerRestored ==
  [][(lastOp'.op = "render" /\ thrown' # "") => CURRENT_INSTANCE' = CURRENT_INSTANCE]_vars

\* the computations made inside the content of the reactive child
ContentComps == InnerComps \cup ReactivePropComps
\* position of the first run of c in tr, 0 when it did not run
FirstRun(tr, c) ==
  IF HasRun(tr, c)
    THEN CHOOSE i \in 1..Len(tr) : tr[i] = RunEv(c) /\ \A j \in 1..(i - 1) : tr[j] # RunEv(c)
    ELSE 0
\* the function of the reactive child was invoked in the step and returned
ViewInvoked(log) == \E p \in 1..Len(log) : log[p].f = "view" /\ log[p].fresh

\* C21: the current-computation pointer follows stack discipline.  Every
\* tracked read is attributed to the innermost running computation only:
\* the computations made inside the content read s.x and nothing else, the
\* reactive child's computation never subscribes to s.x, and its read of
\* s.y, made after the nested autorun of the reactive prop has returned, is
\* attributed to it.  When an autorun or a re-run exits, normally or by an
\* exception, the pointer has the value it had before.
C21_PointerStackDiscipline ==
  [][/\ CURRENT_OBSERVATION' = CURRENT_OBSERVATION
     /\ \A c \in ContentComps :
          /\ HasRun(trace', c) => lastReads'[c] \subseteq {RootKey("x")}
          /\ \A k \in Keys \ {RootKey("x")} : ~InSeq(c, listeners'[k])
     /\ ~InSeq(RegionComp, listeners'[RootKey("x")])
     /\ (/\ HasRun(trace', RegionComp)
         /\ ViewInvoked(memoLog')
         /\ ModeOf(vals'["mode"]) = "propElement")
        => /\ lastReads'[RegionComp] = {RootKey("mode"), RootKey("y")}
           /\ InSeq(RegionComp, listeners'[RootKey("y")])]_vars

\* the initial render threw inside the reactive child's first run; a later
\* write re-ran it, a reactive prop's autorun ran nested in that re-run and
\* read s.x, and the read of s.y after it was attributed to the re-run
C21_Witness ==
  /\ lastOp.op = "set"
  /\ inst[1].kind = "component" /\ inst[1].domRoot = 0 /\ ~inst[1].isDisposed
  /\ thrown = ""
  /\ CURRENT_OBSERVATION = 0
  /\ ModeOf(vals["mode"]) = "propElement"
  /\ \E c \in ReactivePropComps :
       /\ HasRun(trace, c)
       /\ 0 < FirstRun(trace, RegionComp) /\ FirstRun(trace, RegionComp) < FirstRun(trace, c)
       /\ lastReads[c] = {RootKey("x")}
  /\ RootKey("y") \in lastReads[RegionComp]

\* C23: for a reactive child that renders null, then a value, then null
\* again, the region ends as it was before the value was rendered: no node
\* between the anchors, and on every instance as many cleanups registered as
\* before the cycle.
C23_NullValueNullRoundTrip ==
  [][(lastOp'.op = "cycle" /\ thrown' = "")
       => /\ dom'.region = <<>>
          /\ \A i \in Insts : Len(inst'[i].cleanups) = Len(inst[i].cleanups)]_vars

\* C24: when a reactive child replaces or clears its content, every
\* computation made by the evaluation that produced the old content is
\* disposed: after the update none of them is in a listener set.
C24_OldContentComputationsDisposed ==
  [][(/\ lastOp'.op = "set"
      /\ thrown' = ""
      /\ HasRun(trace', RegionComp)
      /\ ViewInvoked(memoLog'))
       => \A c \in ContentComps :
            created[c] => \A k \in Keys : ~InSeq(c, listeners'[k])]_vars

\* the nested reactive children whose element is in the region
ShownInner == {i \in Insts : inst[i].type = "inner" /\ InSeq(inst[i].regionParent, dom.region)}

\* C25: a reactive function child nested in an element produced by an outer
\* reactive child shows its value once the outer evaluation has completed
\* and keeps showing the current value of what it reads for as long as the
\* outer reactive child does not replace that content.
C25_NestedChildShowsValue ==
  (thrown = "" /\ PENDING_NOTIFICATIONS = <<>>)
    => \A i \in ShownInner : inst[i].text = vals["x"]

\* the components whose root node is in the document or in another node
Rendered == {i \in Insts : /\ inst[i].kind = "component"
                           /\ inst[i].domRoot # 0
                           /\ dom.parent[inst[i].domRoot] # 0}

ConstructedIn(log) == {log[q].i : q \in {k \in 1..Len(log) : log[k].e = "construct"}}

\* C27: on every re-run of a reactive child's computation the children kept
\* from the previous run are disposed before the reactive expression is
\* evaluated again: the disposal of each of them precedes every construction
\* the evaluation makes, and no instance constructed by the evaluation is
\* disposed by that same run.
C27_ChildrenDisposedBeforeEvaluation ==
  [][(lastOp'.op = "set" /\ HasRun(trace', RegionComp))
       => LET log == ilog'
              old == inst[RegionInstance(Cur)].children
          IN /\ \A p, q \in 1..Len(log) :
                  (/\ log[p].e = "dispose" /\ log[p].a = 1 /\ InSeq(log[p].i, old)
                   /\ log[q].e = "construct")
                    => p < q
             /\ \A i \in ConstructedIn(log) : ~inst'[i].isDisposed]_vars

\* the members of a sequence
Members(s) == {s[k] : k \in 1..Len(s)}

\* the component instances whose root node is between the anchors
InRegion == {i \in Insts : /\ inst[i].kind = "component"
                           /\ inst[i].domRoot # 0
                           /\ InSeq(inst[i].domRoot, dom.region)}

RECURSIVE ReachFrom(_, _)
\* the instances reachable from those of S through children sets
ReachFrom(S, n) ==
  IF n = 0 THEN S
  ELSE ReachFrom(S \cup UNION {Members(inst[j].children) : j \in S}, n - 1)
Reachable(i) == ReachFrom({i}, MaxInst)

Runs(tr) == SelectSeq(tr, LAMBDA ev : ev.e = "run")

\* C30: within one notification pass for a property the subscribed
\* computations are run in the order in which they were inserted into that
\* property's listener set: a write that changes the property, or a
\* deletion, runs exactly the listeners the set held, first inserted first.
C30_ListenersRunInInsertionOrder ==
  [][lastOp'.op \in {"set", "delete"}
       => LET ls == listeners[lastOp'.key]
              inOrder == [k \in 1..Len(ls) |-> RunEv(ls[k])]
          IN IF lastOp'.op = "delete" \/ lastOp'.changed
               THEN Runs(trace') = inOrder
               ELSE Runs(trace') = <<>>]_vars

\* s.x was written while its listener set held the conditional effect before
\* the sum effect, and that of s.y held them the other way round
C30_Witness ==
  /\ lastOp.op = "set" /\ lastOp.key = RootKey("x") /\ lastOp.changed
  /\ \E c \in CompsOf({"cond"}), d \in CompsOf({"sum"}) :
       /\ Runs(trace) = <<RunEv(c), RunEv(d)>>
       /\ listeners[RootKey("x")] = <<c, d>>
       /\ listeners[RootKey("y")] = <<d, c>>

\* C31: a re-run of a reactive child that yields the single node the region
\* already shows leaves the region untouched: the node is neither removed
\* nor inserted again.
C31_SameNodeLeftUntouched ==
  [][(/\ RegionReran
      /\ thrown' = ""
      /\ dom.cached # 0 /\ dom.region = <<dom.cached>>
      /\ LastResult(memoLog') = SingleOut(NodeItem(dom.cached)))
     => /\ ~LogHas(ilog', "remove")
        /\ ~LogHas(ilog', "insert")]_vars


\* C32: when a reactive child re-renders an all-keyed array of plain
\* elements whose key sequence (keys unique) is the one currently shown, the
\* run inserts, moves and removes no node of the region and evaluates no
\* keyed item.
C32_SameKeysNoNodeWork ==
  [][(/\ RegionReran
      /\ AllItemsOf(LastResult(memoLog'), "keyedElement")
      /\ KeySeq(LastResult(memoLog')) = [k \in 1..Len(dom.region) |-> dom.key[dom.region[k]]]
      /\ Cardinality(KeysOf(LastResult(memoLog'))) = Len(dom.region))
     => /\ thrown' = ""
        /\ dom'.region = dom.region
        /\ ~LogHas(ilog', "insert")
        /\ ~LogHas(ilog', "remove")
        /\ ~LogHas(ilog', "createNode")]_vars

\* s.list was given a new array with the two keys already shown, and the
\* re-run it caused did nothing to the two nodes
C32_Witness ==
  /\ lastOp.op = "set" /\ lastOp.key = RootKey("list") /\ thrown = ""
  /\ HasRun(trace, RegionComp) /\ ViewResults(memoLog) # <<>>
  /\ AllItemsOf(LastResult(memoLog), "keyedElement")
  /\ Len(dom.region) = 2
  /\ KeySeq(LastResult(memoLog)) = <<dom.key[dom.region[1]], dom.key[dom.region[2]]>>
  /\ dom.key[dom.region[1]] # dom.key[dom.region[2]]
  /\ ilog = <<>>

\* C33: whenever a reactive child's computation runs, on its first run and
\* on every re-run caused by a write, the current-instance pointer is that
\* reactive child for the duration of the evaluation: every component the
\* evaluation constructs is given the reactive child as its parent.
C33_EvaluationOwnedByReactiveChild ==
  [][HasRun(trace', RegionComp)
       => \A rc \in Insts :
            (inst'[rc].kind = "reactiveChild" /\ inst'[rc].type = "")
              => \A p \in 1..Len(ilog') :
                   (ilog'[p].e = "construct" /\ inst'[ilog'[p].i].type \in {"Child", "Item"})
                     => ilog'[p].a = rc]_vars

\* the computation whose effect calls the disposer of Victim
Disposer == CHOOSE c \in Comps : EffectKind(c) = "disposing"

\* C34: a computation disposed by another listener while a notification
\* pass over a property both subscribe to is in progress is not run in the
\* remainder of that pass and does not become subscribed again.
C34_DisposedDuringPassNotRun ==
  [][(lastOp'.op \in {"set", "delete"} /\ ~disposed[Victim] /\ disposed'[Victim])
       => /\ \A p, q \in 1..Len(trace') :
               (trace'[p] = RunEv(Disposer) /\ trace'[q] = RunEv(Victim)) => q < p
          /\ \A k \in Keys : ~InSeq(Victim, listeners'[k])]_vars

\* C39: the disposer autorun returns is idempotent: over any number of
\* calls the computation's last registered cleanup is invoked exactly once,
\* by the first call; a later call invokes nothing.
C39_DisposerIdempotent ==
  [][lastOp'.op = "dispose"
       => LET c == lastOp'.c
          IN /\ disposed[c] => trace' = <<>>
             /\ (~disposed[c] /\ cleanup[c]) => trace' = <<CleanupEv(c)>>]_vars

\* C35: a computation that obtains a value through runWithMemo(f) is re-run
\* when a property read by f changes, also when its call was answered from
\* the cache another computation filled in the same change cycle: an
\* unbatched write that changes s.x re-runs every computation made with
\* autorun(() => runWithMemo(double)).
C35_MemoReadersRerun ==
  [][(lastOp'.op = "set" /\ lastOp'.key = RootKey("x") /\ lastOp'.changed /\ ~BATCHING)
       => \A c \in MemoComps : (created[c] /\ ~disposed[c]) => HasRun(trace', c)]_vars

\* the computations that exist and were not disposed after the step
Live == {c \in Comps : created'[c] /\ ~disposed'[c]}

C38_StoredHandleReadBack ==
  [][(lastOp'.op = "read" /\ vals[lastOp'.key[2]].k = "proxy")
       => /\ lastOp'.result[1] = vals[lastOp'.key[2]]
          /\ proxies' = proxies]_vars

====
